---- MODULE Spec2Model ----
(***************************************************************************)
(* Model of the crossing-minimisation engine (arrange/ordering.py) and of  *)
(* the linear-segment placement engine (arrange/placement/                 *)
(* linear_segments.py) of node_arranger.                                   *)
(*                                                                         *)
(* The module holds several state machines over disjoint groups of         *)
(* variables, one per algorithm; each has its own specification.           *)
(*   SpecHC   handle_constraints / find_violated_constraint                *)
(*   SpecCC   get_cross_count                                              *)
(*   SpecLS   get_linear_segments / sort_linear_segments                   *)
(*   SpecBAL  balance_placement                                            *)
(*   SpecMC   minimize_crossings / minimized_cross_count                   *)
(*   SpecDF   calc_deflection                                              *)
(*   SpecPL   create_unbalanced_placement / merge_regions / balance loop    *)
(***************************************************************************)
EXTENDS Integers, Sequences, FiniteSets, TLC

VARIABLES
    \* ---- handle_constraints (ordering.py 193-228)
    hcPc,                  \* "loop" while the merge loop runs, "done" after the ranks are written
    free_col,              \* H.free_col: the free elements of the subproblem
    constrained_clusters,  \* H.constrained_clusters, in the order the caller sorted them
    init_barycenter,       \* the barycenters handle_constraints was entered with
    barycenter,            \* v.cr.barycenter of free elements and of merged dummies
    GC,                    \* the constraint graph: [nodes: Seq, edges: Seq of <<u, v>>]
    L,                     \* L[v]: the members of group v, in concatenation order
    deg,                   \* deg[v] for the nodes of GC
    unconstrained,         \* the set `unconstrained`
    hcMerges,              \* number of merges done by the while loop
    \* ---- get_cross_count (ordering.py 231-273)
    ccPc,                  \* "call" before get_cross_count runs, "done" after it returned
    ccPos,                 \* pos of each owner: column index (fixed) or dense barycenter (free)
    H_N,                   \* H.N
    H_S,                   \* H.S
    bipartite_edges,       \* H.bipartite_edges: Seq of <<north socket, south socket, weight>>
    cross_weight,          \* the value get_cross_count returned
    \* ---- get_linear_segments, sort_linear_segments (linear_segments.py 63-148)
    lsPc,                  \* "build", "assign", "prevent", "sort", "done" or "error"
    ls_columns,            \* G.graph['columns']: Seq of Seq of nodes
    ls_edges,              \* the edges of G, as a set of <<u, v>>
    ls_cluster,            \* v.cluster of every node
    ls_parent,             \* the parent of every cluster but the root: the tree T
    node_type,             \* v.type where prevent_cycles has read it, "?" elsewhere
    linear_segments,       \* the list linear_segments, of segment identities
    segment_nodes,         \* Segment.nodes of every segment
    node_segment,          \* v.segment of every node, 0 while unset
    lsPair,                \* prevent_cycles: index of the current pair of pairwise(reversed(columns))
    lsI,                   \* prevent_cycles: index i of the current node of col1
    \* ---- balance_placement (linear_segments.py 239-276)
    balPc,                 \* "loop" inside `while True`, "done" after the break
    mode,                  \* Mode.FORW_PENDULUM, Mode.BACKW_PENDULUM or Mode.RUBBER
    pendulum_iters,
    final_iters,
    ready,
    prev_total_deflection, \* a number, or Inf for math.inf
    total_deflection,      \* the total of the last iteration
    balIters,              \* iterations of the loop so far
    \* ---- minimize_crossings (ordering.py 305-381)
    mcPc,                  \* "pass" in the inner loop, "returned" after it, "done", "error"
    mc_input,              \* G, T, the initial columns, the random stream, the set order
    columns,               \* G.graph['columns']
    forward_items,         \* per column pair: the column, its tree LT and its data
    backward_items,
    cr,                    \* the cr fields: barycenter and socket_ranks
    iteration,             \* i of minimized_cross_count
    cross_count,
    old_cross_count,
    pass_best_columns,     \* best_columns of minimized_cross_count
    best_cross_count,
    best_columns,          \* best_columns of minimize_crossings
    restarts,              \* finished calls of minimized_cross_count
    rng_pos,               \* calls of uniform() since seed(0)
    \* ---- calc_deflection (linear_segments.py 167-205)
    dfPc,                  \* "call" before calc_deflection runs, "done" after it returned
    df_mode,               \* the mode it is called with
    df_edges,              \* the edges of G: [u, w, fy, ty], fy and ty being the y of the sockets
    df_y,                  \* v.y of every node
    segment_deflection,    \* segment.deflection
    segment_weight,        \* segment.weight
    \* ---- create_unbalanced_placement, merge_regions, balance_placement (151-276)
    plPc,                  \* "place" before the placement, "balance" in the loop, "done"
    pl_input,              \* the columns, the sorted segments, the edges, heights, clusters
    node_y,                \* v.y of every node, None before it is placed
    last_y,                \* v.y as the last iteration found it
    calc_segments,         \* deflection and weight calc_deflection gave every segment
    segments,              \* deflection, weight, ref_segment as merge_regions left them
    balance                \* mode, pendulum_iters, final_iters, ready, prev_total_deflection

hcVars == <<hcPc, free_col, constrained_clusters, init_barycenter, barycenter, GC, L, deg,
            unconstrained, hcMerges>>

ccVars == <<ccPc, ccPos, H_N, H_S, bipartite_edges, cross_weight>>

lsVars == <<lsPc, ls_columns, ls_edges, ls_cluster, ls_parent, node_type, linear_segments,
            segment_nodes, node_segment, lsPair, lsI>>

balVars == <<balPc, mode, pendulum_iters, final_iters, ready, prev_total_deflection,
             total_deflection, balIters>>

mcVars == <<mcPc, mc_input, columns, forward_items, backward_items, cr, iteration,
            cross_count, old_cross_count, pass_best_columns, best_cross_count,
            best_columns, restarts, rng_pos>>

dfVars == <<dfPc, df_mode, df_edges, df_y, segment_deflection, segment_weight>>
plVars == <<plPc, pl_input, node_y, last_y, calc_segments, segments, balance>>

vars == <<hcVars, ccVars, lsVars, balVars, mcVars, dfVars, plVars>>

\* what a step of one of the algorithms leaves alone: the variables of the others
FrameHC == UNCHANGED <<ccVars, lsVars, balVars, mcVars, dfVars, plVars>>
FrameCC == UNCHANGED <<hcVars, lsVars, balVars, mcVars, dfVars, plVars>>
FrameLS == UNCHANGED <<hcVars, ccVars, balVars, mcVars, dfVars, plVars>>
FrameBAL == UNCHANGED <<hcVars, ccVars, lsVars, mcVars, dfVars, plVars>>
FrameMC == UNCHANGED <<hcVars, ccVars, lsVars, balVars, dfVars, plVars>>
FrameDF == UNCHANGED <<hcVars, ccVars, lsVars, balVars, mcVars, plVars>>
FramePL == UNCHANGED <<hcVars, ccVars, lsVars, balVars, mcVars, dfVars>>

-----------------------------------------------------------------------------
(* Bounds of the model *)

\* most free elements of one cluster subproblem
MaxFree == 3
\* initial barycenters are the integers 0..MaxBary
MaxBary == 2
\* values of H.graph.degree[v] the model draws from
DegVals == {0, 1, 2}

-----------------------------------------------------------------------------
(* Exact rational arithmetic: Python floats are modelled as rationals <<n, d>>, d > 0 *)

Abs(x) == IF x < 0 THEN -x ELSE x

RECURSIVE Gcd(_, _)
Gcd(a, b) == IF b = 0 THEN a ELSE Gcd(b, a % b)

Rat(n, d) ==
    LET g == Gcd(Abs(n), d)
    IN  IF g = 0 THEN <<0, 1>> ELSE <<n \div g, d \div g>>

RInt(n) == <<n, 1>>

\* sums and comparisons over the least common denominator
OverLcm(a, b) ==
    LET g == Gcd(a[2], b[2])
    IN  [n1 |-> a[1] * (b[2] \div g), n2 |-> b[1] * (a[2] \div g), d |-> (a[2] \div g) * b[2]]
RAdd(a, b) == Rat(OverLcm(a, b).n1 + OverLcm(a, b).n2, OverLcm(a, b).d)
RSub(a, b) == Rat(OverLcm(a, b).n1 - OverLcm(a, b).n2, OverLcm(a, b).d)
RMulInt(a, k) == Rat(a[1] * (k \div Gcd(Abs(k), a[2])), a[2] \div Gcd(Abs(k), a[2]))
RDivInt(a, k) == Rat(a[1] \div Gcd(Abs(a[1]), k), a[2] * (k \div Gcd(Abs(a[1]), k)))
RLt(a, b) == OverLcm(a, b).n1 < OverLcm(a, b).n2
RLe(a, b) == OverLcm(a, b).n1 <= OverLcm(a, b).n2
REq(a, b) == OverLcm(a, b).n1 = OverLcm(a, b).n2

-----------------------------------------------------------------------------
(* Sequences *)

Range(s) == {s[i] : i \in 1..Len(s)}

IndexOf(s, x) == CHOOSE i \in 1..Len(s) : s[i] = x /\ \A j \in 1..(i - 1) : s[j] # x

RECURSIVE Flatten(_)
Flatten(ss) == IF ss = <<>> THEN <<>> ELSE Head(ss) \o Flatten(Tail(ss))

\* all orders of the set S
RECURSIVE Perms(_)
Perms(S) ==
    IF S = {} THEN {<<>>}
    ELSE UNION {{<<x>> \o p : p \in Perms(S \ {x})} : x \in S}

-----------------------------------------------------------------------------
(* find_violated_constraint *)

GCsucc(G, v) == SelectSeq(G.edges, LAMBDA e : e[1] = v)
GCpred(G, v) == SelectSeq(G.edges, LAMBDA e : e[2] = v)

\* the first constraint of cs whose source barycenter is >= that of its target v
RECURSIVE FirstViolated(_, _, _)
FirstViolated(cs, v, b) ==
    IF cs = <<>> THEN <<>>
    ELSE IF RLe(b[v], b[Head(cs)[1]]) THEN Head(cs)
    ELSE FirstViolated(Tail(cs), v, b)

\* `for t in GC[v]`: record (v, t) at the front of t's incoming list, activate t
\* once all its incoming constraints are known
RECURSIVE Propagate(_, _, _, _)
Propagate(G, out, active, incoming) ==
    IF out = <<>> THEN <<active, incoming>>
    ELSE LET e == Head(out)
             t == e[2]
             inc2 == [incoming EXCEPT ![t] = <<e>> \o @]
             act2 == IF Len(inc2[t]) = Len(GCpred(G, t)) THEN Append(active, t) ELSE active
         IN  Propagate(G, Tail(out), act2, inc2)

RECURSIVE Sweep(_, _, _, _)
Sweep(G, b, active, incoming) ==
    IF active = <<>> THEN <<>>
    ELSE LET v == Head(active)
             c == FirstViolated(incoming[v], v, b)
         IN  IF c # <<>> THEN c
             ELSE LET r == Propagate(G, GCsucc(G, v), Tail(active), incoming)
                  IN  Sweep(G, b, r[1], r[2])

\* the violated constraint <<s, t>> the sweep finds first, <<>> for None
find_violated_constraint(G, b) ==
    LET active == SelectSeq(G.nodes,
                            LAMBDA v : GCsucc(G, v) # <<>> /\ GCpred(G, v) = <<>>)
        incoming == [v \in Range(G.nodes) |-> <<>>]
    IN  Sweep(G, b, active, incoming)

-----------------------------------------------------------------------------
(* handle_constraints *)

\* nx.DiGraph.add_edge: nodes are appended on first mention, an edge is stored once
AddEdge(G, u, v) ==
    LET n1 == IF u \in Range(G.nodes) THEN G.nodes ELSE Append(G.nodes, u)
        n2 == IF v \in Range(n1) THEN n1 ELSE Append(n1, v)
    IN  [nodes |-> n2,
         edges |-> IF <<u, v>> \in Range(G.edges) THEN G.edges ELSE Append(G.edges, <<u, v>>)]

RECURSIVE AddEdgesTo(_, _, _)
AddEdgesTo(G, us, v) ==
    IF us = <<>> THEN G ELSE AddEdgesTo(AddEdge(G, Head(us), v), Tail(us), v)

\* remove_nodes_from dropping the edges of the nodes but leaving the nodes in place
RemoveEdgesOfNodes(G, S) ==
    [nodes |-> G.nodes,
     edges |-> SelectSeq(G.edges, LAMBDA e : e[1] \notin S /\ e[2] \notin S)]

\* nx.DiGraph.remove_nodes_from: the nodes go, and every edge touching them
RemoveNodes(G, S) ==
    [nodes |-> SelectSeq(G.nodes, LAMBDA v : v \notin S),
     edges |-> SelectSeq(G.edges, LAMBDA e : e[1] \notin S /\ e[2] \notin S)]

RemoveEdge(G, e) == [G EXCEPT !.edges = SelectSeq(G.edges, LAMBDA x : x # e)]

\* the sources of the constraints into s and into t: *GC.pred[s], *GC.pred[t]
PredsOf(G, s, t) ==
    [i \in 1..Len(GCpred(G, s)) |-> GCpred(G, s)[i][1]]
        \o [i \in 1..Len(GCpred(G, t)) |-> GCpred(G, t)[i][1]]

\* lines 215-216: only the constraints INTO s and t are moved to the merged node
RewireConstraints(G, s, t, vc) == AddEdgesTo(G, PredsOf(G, s, t), vc)

\* lines 207-211: the barycenter of the merged node
MergedBarycenter(b, d, s, t) ==
    IF d[s] + d[t] > 0
    THEN RDivInt(RAdd(RMulInt(b[s], d[s]), RMulInt(b[t], d[t])), d[s] + d[t])
    ELSE RDivInt(RAdd(b[s], b[t]), 2)

\* GNode(type=GNodeType.DUMMY): an identity no other node has
FreshNode == Cardinality(DOMAIN L) + 1

\* pairwise(H.constrained_clusters) given to GC.add_edges_from
RECURSIVE ChainGraph(_, _)
ChainGraph(G, cc) ==
    IF Len(cc) < 2 THEN G
    ELSE ChainGraph(AddEdge(G, cc[1], cc[2]), Tail(cc))

EmptyGraph == [nodes |-> <<>>, edges |-> <<>>]

\* the groups in any order, whatever their barycenters
AnyOrderOfGroups(S, b) == Perms(S)

\* sorted(unconstrained | GC.nodes, key=barycenter): the iteration order of the set
\* decides among equal keys, so every order with non-decreasing keys is possible
SortedGroups(S, b) ==
    {p \in Perms(S) : \A i \in 1..(Len(p) - 1) : RLe(b[p[i]], b[p[i + 1]])}

InitHC ==
    \E n \in 1..MaxFree :
      \E k \in 0..n :
        \E b \in [1..n -> 0..MaxBary] :
          \E d \in [1..(IF k >= 2 THEN k ELSE 0) -> DegVals] :
            /\ hcPc = "loop"
            /\ free_col = [i \in 1..n |-> i]
            /\ constrained_clusters = [i \in 1..k |-> i]
            /\ init_barycenter = [v \in 1..n |-> RInt(b[v])]
            /\ barycenter = [v \in 1..n |-> RInt(b[v])]
            /\ GC = ChainGraph(EmptyGraph, [i \in 1..k |-> i])
            /\ L = [v \in 1..n |-> <<v>>]
            /\ deg = d
            /\ unconstrained = (1..n) \ (IF k >= 2 THEN 1..k ELSE {})
            /\ hcMerges = 0

\* one iteration of `while c := find_violated_constraint(GC)` (lines 203-224)
HcMerge ==
    /\ hcPc = "loop"
    /\ LET c == find_violated_constraint(GC, barycenter)
       IN  /\ c # <<>>
           /\ LET s == c[1]
                  t == c[2]
                  v_c == FreshNode
                  G1 == RewireConstraints(GC, s, t, v_c)
                  G2 == RemoveNodes(G1, {s, t})
                  G3 == IF <<v_c, v_c>> \in Range(G2.edges)
                        THEN RemoveEdge(G2, <<v_c, v_c>>) ELSE G2
              IN  /\ deg' = (v_c :> (deg[s] + deg[t])) @@ deg
                  /\ barycenter' = (v_c :> MergedBarycenter(barycenter, deg, s, t)) @@ barycenter
                  /\ L' = (v_c :> (L[s] \o L[t])) @@ L
                  /\ GC' = G3
                  /\ unconstrained' = IF v_c \notin Range(G3.nodes)
                                      THEN unconstrained \cup {v_c} ELSE unconstrained
    /\ hcMerges' = hcMerges + 1
    /\ UNCHANGED <<hcPc, free_col, constrained_clusters, init_barycenter>>
    /\ FrameHC

\* the loop ends, the groups are sorted and the dense ranks written (lines 226-228)
HcWriteRanks ==
    /\ hcPc = "loop"
    /\ find_violated_constraint(GC, barycenter) = <<>>
    /\ \E groups \in SortedGroups(unconstrained \cup Range(GC.nodes), barycenter) :
         LET order == Flatten([i \in 1..Len(groups) |-> L[groups[i]]])
         IN  barycenter' = [v \in DOMAIN barycenter |->
                               IF v \in Range(order) THEN RInt(IndexOf(order, v) - 1)
                               ELSE barycenter[v]]
    /\ hcPc' = "done"
    /\ UNCHANGED <<free_col, constrained_clusters, init_barycenter, GC, L, deg, unconstrained,
                   hcMerges>>
    /\ FrameHC

NextHC == HcMerge \/ HcWriteRanks

-----------------------------------------------------------------------------
(* get_cross_count, and the choice of the sides in crossing_reduction_data *)

\* most edges of one bipartite subproblem
MaxEdges == 3
\* owners of the sockets of either side, and the socket indices (Socket.idx) of one owner
Owners == {1, 2}
SocketIdx == {0, 1}
Weights == {1, 2}

\* a socket is <<owner, idx>>; the fixed side and the free side have their own owners
Sockets == Owners \X SocketIdx

\* stable insertion sort of seq by the integer key[x], as list.sort(key=...)
RECURSIVE InsertByKey(_, _, _)
InsertByKey(sorted, x, key) ==
    IF sorted = <<>> THEN <<x>>
    ELSE IF key[sorted[Len(sorted)]] <= key[x] THEN Append(sorted, x)
    ELSE Append(InsertByKey(SubSeq(sorted, 1, Len(sorted) - 1), x, key), sorted[Len(sorted)])

RECURSIVE SortByKey(_, _)
SortByKey(seq, key) ==
    IF seq = <<>> THEN <<>>
    ELSE InsertByKey(SortByKey(SubSeq(seq, 1, Len(seq) - 1), key), seq[Len(seq)], key)

\* a set as a list, in the order its iteration happens to give; every use below sorts
\* the list or is indifferent to its order
RECURSIVE SetToSeq(_)
SetToSeq(X) ==
    IF X = {} THEN <<>>
    ELSE LET x == CHOOSE y \in X : TRUE IN Append(SetToSeq(X \ {x}), x)

\* lines 110-119: N, S are the sockets of the two ends of B's edges; the side with
\* fewer sockets becomes S (B is reversed), both are sorted by idx
ChooseSides(E, w) ==
    LET froms == {e[1] : e \in E}
        tos == {e[2] : e \in E}
        swap == Cardinality(tos) > Cardinality(froms)
        side(X, tag) == SortByKey(SetToSeq({<<tag, x[1], x[2]>> : x \in X}),
                                  [x \in {tag} \X Owners \X SocketIdx |-> x[3]])
        es == SetToSeq(E)
    IN  [N |-> IF swap THEN side(tos, "free") ELSE side(froms, "fixed"),
         S |-> IF swap THEN side(froms, "fixed") ELSE side(tos, "free"),
         edges |-> [i \in 1..Len(es) |->
                       IF swap THEN <<<<"free", es[i][2][1], es[i][2][2]>>,
                                      <<"fixed", es[i][1][1], es[i][1][2]>>, w[es[i]]>>
                       ELSE <<<<"fixed", es[i][1][1], es[i][1][2]>>,
                              <<"free", es[i][2][1], es[i][2][2]>>, w[es[i]]>>]]

\* south_indicies / north_indicies: 0-based index of each socket in the sorted list
Indicies(list) == [k \in Range(list) |-> IndexOf(list, k) - 1]

\* lines 252-254: the least power of two >= len(H.S)
RECURSIVE FirstIdx(_, _)
FirstIdx(f, n) == IF f < n THEN FirstIdx(2 * f, n) ELSE f

\* WalkUp with the sibling test inverted: sums the left sibling of right children
RECURSIVE WalkUpLeftSibling(_, _, _, _)
WalkUpLeftSibling(tree, idx, weight, weight_sum) ==
    IF idx > 0
    THEN LET ws == IF idx % 2 = 0 THEN weight_sum + tree[idx - 1] ELSE weight_sum
             up == (idx - 1) \div 2
         IN  WalkUpLeftSibling([tree EXCEPT ![up] = @ + weight], up, weight, ws)
    ELSE <<tree, weight_sum>>

\* lines 264-269: walk from leaf idx to the root, adding weight to every ancestor and
\* summing the right siblings of the left children passed
RECURSIVE WalkUp(_, _, _, _)
WalkUp(tree, idx, weight, weight_sum) ==
    IF idx > 0
    THEN LET ws == IF idx % 2 = 1 THEN weight_sum + tree[idx + 1] ELSE weight_sum
             up == (idx - 1) \div 2
         IN  WalkUp([tree EXCEPT ![up] = @ + weight], up, weight, ws)
    ELSE <<tree, weight_sum>>

\* lines 260-271: the loop over the sorted edges
RECURSIVE SweepEdges(_, _, _, _, _)
SweepEdges(edges, south_indicies, first_idx, tree, cw) ==
    IF edges = <<>> THEN cw
    ELSE LET e == Head(edges)
             idx == south_indicies[e[2]] + first_idx
             r == WalkUp([tree EXCEPT ![idx] = @ + e[3]], idx, e[3], 0)
         IN  SweepEdges(Tail(edges), south_indicies, first_idx, r[1], cw + e[3] * r[2])

\* get_cross_count(H): pos is the position of each socket's owner. Returns the count
\* and the lists it sorted in place
get_cross_count(HN, HS, edges, pos) ==
    IF edges = <<>> THEN [count |-> 0, N |-> HN, S |-> HS, edges |-> edges]
    ELSE LET N1 == SortByKey(HN, [k \in Range(HN) |-> pos[k]])
             S1 == SortByKey(HS, [k \in Range(HS) |-> pos[k]])
             south_indicies == Indicies(S1)
             north_indicies == Indicies(N1)
             e1 == SortByKey(edges, [e \in Range(edges) |-> south_indicies[e[2]]])
             e2 == SortByKey(e1, [e \in Range(edges) |-> north_indicies[e[1]]])
             first_idx == FirstIdx(1, Len(S1))
             tree == [i \in 0..(2 * first_idx - 2) |-> 0]
         IN  [count |-> SweepEdges(e2, south_indicies, first_idx - 1, tree, 0),
              N |-> N1, S |-> S1, edges |-> e2]

\* the owners' positions: a column index on the fixed side, a dense rank on the free side
OwnerPositions == {p \in [Owners -> 0..(Cardinality(Owners) - 1)] :
                      \A a, b \in Owners : a # b => p[a] # p[b]}

InitCC ==
    \E E \in SUBSET (Sockets \X Sockets) :
      /\ Cardinality(E) <= MaxEdges
      /\ \E w \in [E -> Weights] :
           \E pf \in OwnerPositions :
             \E pr \in OwnerPositions :
               LET H == ChooseSides(E, w)
               IN  /\ ccPc = "call"
                   /\ ccPos = [fixed |-> pf, free |-> pr]
                   /\ H_N = H.N
                   /\ H_S = H.S
                   /\ bipartite_edges = H.edges
                   /\ cross_weight = 0

\* pos(w) of get_cross_count (lines 239-241)
SocketPos(P, k) == P[k[1]][k[2]]

CcCount ==
    /\ ccPc = "call"
    /\ LET r == get_cross_count(H_N, H_S, bipartite_edges,
                                [k \in Range(H_N) \cup Range(H_S) |-> SocketPos(ccPos, k)])
       IN  /\ cross_weight' = r.count
           /\ H_N' = r.N
           /\ H_S' = r.S
           /\ bipartite_edges' = r.edges
    /\ ccPc' = "done"
    /\ UNCHANGED ccPos
    /\ FrameCC

NextCC == CcCount

-----------------------------------------------------------------------------
(* get_linear_segments *)

\* number of columns, and most nodes of one column
NumCols == 3
MaxColLen == 2
\* graphs of at most this many nodes are drawn with every assignment of clusters to
\* their nodes, larger ones with all nodes directly in the root cluster
MaxClusteredNodes == 4
\* the clusters: "R" is the root, "A" and "B" are its children
Clusters == {"R", "A", "B"}
ClusterTrees == {[A |-> "R", B |-> "R"]}

ClusterChoices(nodes) ==
    IF Cardinality(nodes) <= MaxClusteredNodes THEN [nodes -> Clusters]
    ELSE {[v \in nodes |-> "R"]}

\* c.nesting_level: the depth of c in T
RECURSIVE nesting_level(_, _)
nesting_level(parent, c) == IF c = "R" THEN 0 ELSE 1 + nesting_level(parent, parent[c])

\* nx.has_path(T, cu, cv): cu is cv or one of its ancestors
RECURSIVE has_path(_, _, _)
has_path(parent, cu, cv) ==
    IF cu = cv THEN TRUE
    ELSE IF cv = "R" THEN FALSE
    ELSE has_path(parent, cu, parent[cv])

out_degree(E, v) == Cardinality({e \in E : e[1] = v})
in_degree(E, v) == Cardinality({e \in E : e[2] = v})

\* lines 67-70: the clusters that directly hold a node of in- or out-degree > 1
complex_clusters(E, cl) ==
    {c \in Clusters : \E v \in DOMAIN cl :
        cl[v] = c /\ (in_degree(E, v) > 1 \/ out_degree(E, v) > 1)}

\* ClusterBreak without the test for complex clusters: any change of cluster breaks
ClusterBreakAlways(parent, cl, cplx, u, v) == cl[u] # cl[v]

\* lines 89-97: the chain started at u stops before v because of their clusters
ClusterBreak(parent, cl, cplx, u, v) ==
    LET c1 == cl[u]
        c2 == cl[v]
        cu == IF nesting_level(parent, c2) < nesting_level(parent, c1) THEN c2 ELSE c1
        cv == IF nesting_level(parent, c2) < nesting_level(parent, c1) THEN c1 ELSE c2
    IN  /\ c1 # c2
        /\ IF has_path(parent, cu, cv) THEN cv \in cplx ELSE {c1, c2} \cap cplx # {}

\* lines 83-99: the nodes nx.dfs_preorder_nodes(G, u) yields after cur, up to the break
RECURSIVE ExtendChain(_, _, _, _, _, _, _)
ExtendChain(E, parent, cl, cplx, u, cur, nodes) ==
    LET succ == {e[2] : e \in {x \in E : x[1] = cur}}
    IN  IF succ = {} THEN nodes
        ELSE LET v == CHOOSE w \in succ : TRUE
             IN  IF in_degree(E, v) > 1 \/ out_degree(E, v) > 1 THEN nodes
                 ELSE IF ClusterBreak(parent, cl, cplx, u, v) THEN nodes
                 ELSE ExtendChain(E, parent, cl, cplx, u, v, Append(nodes, v))

\* lines 72-104: the loop over the nodes in column order; todo is what is left of
\* chain(*columns), acc the segments appended so far
RECURSIVE BuildSegments(_, _, _, _, _, _)
BuildSegments(E, parent, cl, todo, seen, acc) ==
    IF todo = <<>> THEN acc
    ELSE LET u == Head(todo)
         IN  IF u \in seen THEN BuildSegments(E, parent, cl, Tail(todo), seen, acc)
             ELSE IF out_degree(E, u) > 1
             THEN BuildSegments(E, parent, cl, Tail(todo), seen, Append(acc, <<u>>))
             ELSE LET nodes == ExtendChain(E, parent, cl, complex_clusters(E, cl), u, u, <<u>>)
                  IN  BuildSegments(E, parent, cl, Tail(todo), seen \cup Range(nodes),
                                    Append(acc, nodes))

get_linear_segments(cols, E, parent, cl) == BuildSegments(E, parent, cl, Flatten(cols), {}, <<>>)

\* the columns hold the nodes 1, 2, ... in order: column c holds lens[c] of them
RECURSIVE MakeColumns(_, _)
MakeColumns(lens, first) ==
    IF lens = <<>> THEN <<>>
    ELSE <<[i \in 1..Head(lens) |-> first + i - 1]>> \o MakeColumns(Tail(lens), first + Head(lens))

\* the edges G may have: from a node to a node of the next column
ForwardPairs(cols) ==
    UNION {Range(cols[c]) \X Range(cols[c + 1]) : c \in 1..(Len(cols) - 1)}

InitLS ==
    \E lens \in [1..NumCols -> 1..MaxColLen] :
      LET cols == MakeColumns(lens, 1)
          nodes == Range(Flatten(cols))
      IN  \E E \in SUBSET ForwardPairs(cols) :
            \E cl \in ClusterChoices(nodes) :
              \E parent \in ClusterTrees :
                /\ lsPc = "build"
                /\ ls_columns = cols
                /\ ls_edges = E
                /\ ls_cluster = cl
                /\ ls_parent = parent
                /\ node_type = [v \in nodes |-> "?"]
                /\ linear_segments = <<>>
                /\ segment_nodes = <<>>
                /\ node_segment = [v \in nodes |-> 0]
                /\ lsPair = 0
                /\ lsI = 0

\* linear_segments = get_linear_segments(CG) (line 280)
LsBuild ==
    /\ lsPc = "build"
    /\ LET segs == get_linear_segments(ls_columns, ls_edges, ls_parent, ls_cluster)
       IN  /\ linear_segments' = [i \in 1..Len(segs) |-> i]
           /\ segment_nodes' = segs
    /\ lsPc' = "assign"
    /\ UNCHANGED <<ls_columns, ls_edges, ls_cluster, ls_parent, node_type, node_segment,
                   lsPair, lsI>>
    /\ FrameLS

-----------------------------------------------------------------------------
(* sort_linear_segments, prevent_cycles *)

\* lines 136-138: v.segment = segment, for every segment in list order
RECURSIVE AssignSegments(_, _, _)
AssignSegments(segs, snodes, ns) ==
    IF segs = <<>> THEN ns
    ELSE AssignSegments(Tail(segs), snodes,
                        [v \in DOMAIN ns |-> IF v \in Range(snodes[Head(segs)])
                                             THEN Head(segs) ELSE ns[v]])

\* the pairs of pairwise(reversed(columns)): pair p is (columns[n - p + 1], columns[n - p])
Col1(p) == ls_columns[Len(ls_columns) - p + 1]
Col2(p) == ls_columns[Len(ls_columns) - p]

\* the position after (p, i) in the two loops of prevent_cycles; pair 0 is "finished"
NextCursor(p, i) ==
    IF i < Len(Col1(p)) THEN <<p, i + 1>>
    ELSE IF p < Len(ls_columns) - 1 THEN <<p + 1, 1>>
    ELSE <<0, 0>>

LsAssign ==
    /\ lsPc = "assign"
    /\ node_segment' = AssignSegments(linear_segments, segment_nodes, node_segment)
    /\ IF Len(ls_columns) > 1
       THEN lsPc' = "prevent" /\ lsPair' = 1 /\ lsI' = 1
       ELSE lsPc' = "sort" /\ lsPair' = 0 /\ lsI' = 0
    /\ UNCHANGED <<ls_columns, ls_edges, ls_cluster, ls_parent, node_type, linear_segments,
                   segment_nodes>>
    /\ FrameLS

\* Segment.split without `nodes.remove(w)`: the moved nodes stay in the old segment too
SegmentSplitNoRemove(st, s, v) ==
    LET nodes == st.nodes[s]
        moved == SubSeq(nodes, IndexOf(nodes, v), Len(nodes))
        new == Len(st.nodes) + 1
    IN  [list |-> Append(st.list, new),
         nodes |-> Append(st.nodes, moved),
         ref |-> [w \in DOMAIN st.ref |-> IF w \in Range(moved) THEN new ELSE st.ref[w]]]

\* Segment.split(v) on segment s (lines 40-47); st = [list, nodes, ref] is the state
\* of linear_segments, Segment.nodes and v.segment, the new segment is appended
SegmentSplit(st, s, v) ==
    LET nodes == st.nodes[s]
        k == IndexOf(nodes, v)
        moved == SubSeq(nodes, k, Len(nodes))
        new == Len(st.nodes) + 1
    IN  [list |-> Append(st.list, new),
         nodes |-> Append([st.nodes EXCEPT ![s] = SelectSeq(nodes, LAMBDA w : w \notin Range(moved))],
                          moved),
         ref |-> [w \in DOMAIN st.ref |-> IF w \in Range(moved) THEN new ELSE st.ref[w]]]

\* lines 126-127: split every cycle segment at its node of col1
RECURSIVE SplitCycleSegments(_, _, _, _)
SplitCycleSegments(st, cyc, col1, segments1) ==
    IF cyc = <<>> THEN st
    ELSE SplitCycleSegments(SegmentSplit(st, Head(cyc), col1[IndexOf(segments1, Head(cyc))]),
                            Tail(cyc), col1, segments1)

\* cycle_segments looking at the segments ABOVE v's segment in col2
cycle_segments_above(col1, col2, i, ref) ==
    LET v == col1[i]
        segments2 == [j \in 1..Len(col2) |-> ref[col2[j]]]
        segments1 == [j \in 1..Len(col1) |-> ref[col1[j]]]
    IN  IF ref[v] \notin Range(segments2) THEN <<>>
        ELSE LET above == Range(SubSeq(segments2, 1, IndexOf(segments2, ref[v]) - 1))
             IN  SelectSeq(SubSeq(segments1, 1, i - 1), LAMBDA s : s \in above)

\* lines 113-120 for the node v = col1[i]: the segments above v in col1 that are
\* below v's segment in col2
cycle_segments(col1, col2, i, ref) ==
    LET v == col1[i]
        segments2 == [j \in 1..Len(col2) |-> ref[col2[j]]]
        segments1 == [j \in 1..Len(col1) |-> ref[col1[j]]]
    IN  IF ref[v] \notin Range(segments2) THEN <<>>
        ELSE LET below == Range(SubSeq(segments2, IndexOf(segments2, ref[v]) + 1, Len(segments2)))
             IN  SelectSeq(SubSeq(segments1, 1, i - 1), LAMBDA s : s \in below)

\* one iteration of `for i, v in enumerate(col1)` (lines 112-129). v.type is read
\* only here and at most once for a node, so it is drawn when it is read
LsPreventStep ==
    /\ lsPc = "prevent"
    /\ LET col1 == Col1(lsPair)
           col2 == Col2(lsPair)
           v == col1[lsI]
           segments1 == [j \in 1..Len(col1) |-> node_segment[col1[j]]]
           cyc == cycle_segments(col1, col2, lsI, node_segment)
           st == [list |-> linear_segments, nodes |-> segment_nodes, ref |-> node_segment]
           nxt == NextCursor(lsPair, lsI)
       IN  /\ IF cyc = <<>>
              THEN UNCHANGED <<node_type, linear_segments, segment_nodes, node_segment>>
              ELSE \E ty \in {"VERTICAL_BORDER", "OTHER"} :
                     LET st2 == IF ty = "VERTICAL_BORDER"
                                THEN SplitCycleSegments(st, cyc, col1, segments1)
                                ELSE SegmentSplit(st, node_segment[v], v)
                     IN  /\ node_type' = [node_type EXCEPT ![v] = ty]
                         /\ linear_segments' = st2.list
                         /\ segment_nodes' = st2.nodes
                         /\ node_segment' = st2.ref
           /\ lsPair' = nxt[1]
           /\ lsI' = nxt[2]
           /\ lsPc' = IF nxt[1] = 0 THEN "sort" ELSE "prevent"
    /\ UNCHANGED <<ls_columns, ls_edges, ls_cluster, ls_parent>>
    /\ FrameLS

\* lines 142-145: the edges of SG in insertion order, each stored once
RECURSIVE PairwiseEdges(_, _, _)
PairwiseEdges(col, ref, acc) ==
    IF Len(col) < 2 THEN acc
    ELSE LET e == <<ref[col[1]], ref[col[2]]>>
         IN  PairwiseEdges(Tail(col), ref, IF e \in Range(acc) THEN acc ELSE Append(acc, e))

RECURSIVE SGEdges(_, _, _)
SGEdges(cols, ref, acc) ==
    IF cols = <<>> THEN acc ELSE SGEdges(Tail(cols), ref, PairwiseEdges(Head(cols), ref, acc))

\* nx.topological_sort(SG): generation by generation; a child joins the next
\* generation when the last of its incoming edges is passed. st = [indeg, next]
RECURSIVE VisitChildren(_, _)
VisitChildren(out, st) ==
    IF out = <<>> THEN st
    ELSE LET child == Head(out)[2]
             d == st.indeg[child] - 1
         IN  VisitChildren(Tail(out),
                           [indeg |-> [st.indeg EXCEPT ![child] = d],
                            next |-> IF d = 0 THEN Append(st.next, child) ELSE st.next])

RECURSIVE VisitGeneration(_, _, _)
VisitGeneration(gen, edges, st) ==
    IF gen = <<>> THEN st
    ELSE VisitGeneration(Tail(gen), edges,
                         VisitChildren(SelectSeq(edges, LAMBDA e : e[1] = Head(gen)), st))

RECURSIVE Generations(_, _, _, _)
Generations(gen, edges, indeg, order) ==
    IF gen = <<>> THEN [order |-> order, ok |-> \A s \in DOMAIN indeg : indeg[s] = 0]
    ELSE LET st == VisitGeneration(gen, edges, [indeg |-> indeg, next |-> <<>>])
         IN  Generations(st.next, edges, st.indeg, order \o gen)

topological_sort(nodes, edges) ==
    LET indeg == [s \in Range(nodes) |-> Len(SelectSeq(edges, LAMBDA e : e[2] = s))]
    IN  Generations(SelectSeq(nodes, LAMBDA s : indeg[s] = 0), edges, indeg, <<>>)

\* lines 142-148: build SG, sort it topologically, order linear_segments by it;
\* nx.topological_sort raises when SG has a cycle
LsSort ==
    /\ lsPc = "sort"
    /\ LET r == topological_sort(linear_segments, SGEdges(ls_columns, node_segment, <<>>))
       IN  IF r.ok
           THEN /\ linear_segments' = SortByKey(linear_segments,
                                                [s \in Range(linear_segments) |-> IndexOf(r.order, s)])
                /\ lsPc' = "done"
           ELSE /\ lsPc' = "error"
                /\ UNCHANGED linear_segments
    /\ UNCHANGED <<ls_columns, ls_edges, ls_cluster, ls_parent, node_type, segment_nodes,
                   node_segment, lsPair, lsI>>
    /\ FrameLS

NextLS == LsBuild \/ LsAssign \/ LsPreventStep \/ LsSort

-----------------------------------------------------------------------------
(* balance_placement: the loop and its mode switches. The total absolute deflection
   of an iteration is the sum calc_deflection leaves in the segments; here it is any
   number of 0..MaxDeflection *)

_ITERS == 10
_PENDULUM_ITERS == 4
_FINAL_ITERS == 3
_THRESH_FAC == 20

\* largest total deflection of one iteration
MaxDeflection == 6

\* math.inf: the totals are non-negative, so a negative number stands for it
Inf == -1

\* a < b, and a - b < _THRESH_FAC / _ITERS, where a and b may be math.inf
LessThan(a, b) == a # Inf /\ (b = Inf \/ a < b)
ImprovesLittle(prev, total) ==
    IF prev = Inf THEN FALSE ELSE (prev - total) * _ITERS < _THRESH_FAC

\* LeavePendulum without the hard cap on the iterations
LeavePendulumNoCap(iters, total, prev) == iters <= 0 /\ LessThan(total, prev)

\* line 262-263: the pendulum phase ends
LeavePendulum(iters, total, prev) ==
    iters <= 0 /\ (LessThan(total, prev) \/ -iters > _ITERS)

\* line 270: the rubber phase has stabilised
Stabilised(total, prev) == ~LessThan(total, prev) \/ ImprovesLittle(prev, total)

InitBAL ==
    /\ balPc = "loop"
    /\ mode = "FORW_PENDULUM"
    /\ pendulum_iters = _PENDULUM_ITERS
    /\ final_iters = _FINAL_ITERS
    /\ ready = FALSE
    /\ prev_total_deflection = Inf
    /\ total_deflection = 0
    /\ balIters = 0

\* one iteration of `while True` in a pendulum mode (lines 247-268, 275)
BalPendulum ==
    /\ balPc = "loop"
    /\ mode \in {"FORW_PENDULUM", "BACKW_PENDULUM"}
    /\ \E total \in 0..MaxDeflection :
         /\ total_deflection' = total
         /\ pendulum_iters' = pendulum_iters - 1
         /\ IF LeavePendulum(pendulum_iters - 1, total, prev_total_deflection)
            THEN /\ mode' = "RUBBER"
                 /\ prev_total_deflection' = Inf
            ELSE /\ mode' = IF mode = "FORW_PENDULUM" THEN "BACKW_PENDULUM" ELSE "FORW_PENDULUM"
                 /\ prev_total_deflection' = total
    /\ balPc' = IF ready /\ final_iters > 0 THEN "done" ELSE "loop"
    /\ balIters' = balIters + 1
    /\ UNCHANGED <<final_iters, ready>>
    /\ FrameBAL

\* one iteration of `while True` in rubber mode (lines 247-258, 269-276)
BalRubber ==
    /\ balPc = "loop"
    /\ mode = "RUBBER"
    /\ \E total \in 0..MaxDeflection :
         LET r == Stabilised(total, prev_total_deflection)
             f == IF r THEN final_iters - 1 ELSE final_iters
         IN  /\ total_deflection' = total
             /\ ready' = r
             /\ prev_total_deflection' = total
             /\ final_iters' = f
             /\ balPc' = IF r /\ f > 0 THEN "done" ELSE "loop"
    /\ balIters' = balIters + 1
    /\ UNCHANGED <<mode, pendulum_iters>>
    /\ FrameBAL

NextBAL == BalPendulum \/ BalRubber

-----------------------------------------------------------------------------
(* minimize_crossings: the nesting trees and crossing_reduction_data.
   A node or cluster is a string, a graph is [nodes, edges] with both in insertion
   order (nx.DiGraph), the multigraph G is the list of its edges <<s, t, i, j>>
   (from_socket = Socket(s, i, True), to_socket = Socket(t, j, False)), and a socket
   is <<owner, idx, is_output>> *)

\* iteration of a Python set of nodes and clusters: their hashes are their identities,
\* so the order is some order ho of all of them
SetIter(X, ho) == SelectSeq(ho, LAMBDA x : x \in X)

\* the first occurrence of every element of seq
RECURSIVE FirstOccurrences(_)
FirstOccurrences(seq) ==
    IF seq = <<>> THEN <<>>
    ELSE LET r == FirstOccurrences(SubSeq(seq, 1, Len(seq) - 1))
         IN  IF seq[Len(seq)] \in Range(r) THEN r ELSE Append(r, seq[Len(seq)])

\* G[u] of an nx.DiGraph: the successors of u in insertion order
Adj(G, u) ==
    LET out == SelectSeq(G.edges, LAMBDA e : e[1] = u)
    IN  [k \in 1..Len(out) |-> out[k][2]]

RECURSIVE add_edges_from(_, _)
add_edges_from(G, es) ==
    IF es = <<>> THEN G ELSE add_edges_from(AddEdge(G, Head(es)[1], Head(es)[2]), Tail(es))

\* nx.descendants(G, u) and nx.ancestors(G, v), for a forest G
RECURSIVE descendants(_, _)
descendants(G, u) ==
    Range(Adj(G, u)) \cup UNION {descendants(G, v) : v \in Range(Adj(G, u))}

ancestors(G, v) == {u \in Range(G.nodes) : v \in descendants(G, u)}

\* lines 28-30: the nesting tree of one column
NestingTree(col, T, ho) ==
    LET nodes == SetIter(Range(col) \cup UNION {ancestors(T, v) : v \in Range(col)}, ho)
        from(u) == LET vs == SelectSeq(Adj(T, u), LAMBDA v : v \in Range(nodes))
                   IN  [k \in 1..Len(vs) |-> <<u, vs[k]>>]
    IN  add_edges_from(EmptyGraph, Flatten([k \in 1..Len(nodes) |-> from(nodes[k])]))

get_col_nesting_trees(cols, T, ho) == [k \in 1..Len(cols) |-> NestingTree(cols[k], T, ho)]

\* TC[h] of nx.transitive_closure(LT, reflexive=True): TC starts as a copy of LT, then
\* gets the edges (h, u) for u in the set nx.descendants(LT, h) | {h} not yet in TC[h]
reflexive_transitive_closure(LT, h, ho) ==
    Adj(LT, h) \o SelectSeq(SetIter(descendants(LT, h) \cup {h}, ho),
                            LAMBDA u : u \notin Range(Adj(LT, h)))

\* [h for h in nx.topological_sort(LT) if h.type == GNodeType.CLUSTER]; the clusters
\* are the nodes of LT that have children
topologically_sorted_clusters(LT) ==
    SelectSeq(topological_sort(LT.nodes, LT.edges).order, LAMBDA h : Adj(LT, h) # <<>>)

\* G.in_edges(n, data=True) of the multigraph E, or of nx.reverse_view(G): the
\* neighbours in the order of their first edge, the parallel edges of one together
InEdgesOf(E, n, backwards) ==
    LET mine == SelectSeq(E, LAMBDA e : IF backwards THEN e[1] = n ELSE e[2] = n)
        other(e) == IF backwards THEN e[2] ELSE e[1]
        nbrs == FirstOccurrences([k \in 1..Len(mine) |-> other(mine[k])])
    IN  Flatten([k \in 1..Len(nbrs) |-> SelectSeq(mine, LAMBDA e : other(e) = nbrs[k])])

\* G.in_edges(TC[h], data=True): the members of TC[h] that are not in G are skipped
in_edges(E, nbunch, backwards) ==
    Flatten([k \in 1..Len(nbunch) |-> InEdgesOf(E, nbunch[k], backwards)])

\* line 73: the child of h that is t or has t below it
ChildAbove(LT, h, t) ==
    CHOOSE c \in Range(Adj(LT, h)) : c = t \/ t \in descendants(LT, c)

\* lines 75-85 without the weight of a repeated pair being raised
AddContractedKeepWeight(gh, e, c, backwards) ==
    LET s == IF backwards THEN e[2] ELSE e[1]
    IN  IF \E k \in 1..Len(gh) : gh[k].s = s /\ gh[k].c = c THEN gh
        ELSE Append(gh, [s |-> s, c |-> c, weight |-> 1,
                         from_socket |-> <<s, IF backwards THEN e[4] ELSE e[3], ~backwards>>,
                         to_socket |-> <<c, IF backwards THEN e[3] ELSE e[4], backwards>>])

\* lines 75-85: the edge e from s into the subtree of c joins G_h: a pair (s, c) seen
\* before gains weight, a new pair is stored with the sockets of e, re-owned by s and c
AddContracted(gh, e, c, backwards) ==
    LET s == IF backwards THEN e[2] ELSE e[1]
    IN  IF \E k \in 1..Len(gh) : gh[k].s = s /\ gh[k].c = c
        THEN LET k == CHOOSE k \in 1..Len(gh) : gh[k].s = s /\ gh[k].c = c
             IN  [gh EXCEPT ![k].weight = @ + 1]
        ELSE Append(gh, [s |-> s, c |-> c, weight |-> 1,
                         from_socket |-> <<s, IF backwards THEN e[4] ELSE e[3], ~backwards>>,
                         to_socket |-> <<c, IF backwards THEN e[3] ELSE e[4], backwards>>])

\* lines 70-85: the edges of the contracted graph G_h, in insertion order
RECURSIVE Contract(_, _, _, _, _)
Contract(es, LT, h, backwards, gh) ==
    IF es = <<>> THEN gh
    ELSE LET e == Head(es)
             t == IF backwards THEN e[1] ELSE e[2]
         IN  Contract(Tail(es), LT, h, backwards,
                      AddContracted(gh, e, ChildAbove(LT, h, t), backwards))

ContractedGraph(E, LT, h, backwards, ho) ==
    Contract(in_edges(E, reflexive_transitive_closure(LT, h, ho), backwards),
             LT, h, backwards, <<>>)

Reverse(seq) == [k \in 1..Len(seq) |-> seq[Len(seq) - k + 1]]

\* lines 91-93: for every source u of G_h the set of the from_sockets of its edges,
\* sorted by idx, descending unless backwards
FixedSockets(gh, backwards) ==
    [u \in {gh[k].s : k \in 1..Len(gh)} |->
        LET sockets == {gh[k].from_socket : k \in {j \in 1..Len(gh) : gh[j].s = u}}
            asc == SortByKey(SetToSeq(sockets), [x \in sockets |-> x[2]])
        IN  IF backwards THEN asc ELSE Reverse(asc)]

\* lines 95-96: for every free child v the from_sockets of the edges of G_h into v
FreeSockets(gh, free) ==
    [v \in Range(free) |->
        LET into == SelectSeq(gh, LAMBDA d : d.c = v)
        IN  [k \in 1..Len(into) |-> into[k].from_socket]]

\* lines 106-119: the sockets of the two ends of the edges of B; the side with fewer
\* sockets becomes S (B is reversed), both are sorted by idx
BipartiteSides(gh) ==
    LET froms == {gh[k].from_socket : k \in 1..Len(gh)}
        tos == {gh[k].to_socket : k \in 1..Len(gh)}
        swap == Cardinality(tos) > Cardinality(froms)
        byIdx(X) == SortByKey(SetToSeq(X), [x \in X |-> x[2]])
    IN  [N |-> byIdx(IF swap THEN tos ELSE froms),
         S |-> byIdx(IF swap THEN froms ELSE tos),
         edges |-> [k \in 1..Len(gh) |->
                       IF swap THEN <<gh[k].to_socket, gh[k].from_socket, gh[k].weight>>
                       ELSE <<gh[k].from_socket, gh[k].to_socket, gh[k].weight>>]]

\* lines 70-123: the ClusterCrossingsData of cluster h; prev is the previous tree and
\* gnodes the nodes of G
ClusterCrossingsData(E, LT, prev, h, backwards, gnodes, ho) ==
    LET gh == ContractedGraph(E, LT, h, backwards, ho)
        free == Adj(LT, h)
        prev_clusters == Range(prev.nodes) \ gnodes
        B == BipartiteSides(gh)
    IN  [h |-> h,
         free_col |-> free,
         fixed_sockets |-> FixedSockets(gh, backwards),
         free_sockets |-> FreeSockets(gh, free),
         constrained_clusters |-> SelectSeq(free, LAMBDA v : v \in prev_clusters),
         graph |-> gh,
         N |-> B.N, S |-> B.S, bipartite_edges |-> B.edges]

\* lines 66-125: for every tree but the first the data of its clusters, in the
\* topological order of the tree
crossing_reduction_data(E, trees, backwards, gnodes, ho) ==
    [k \in 1..(Len(trees) - 1) |->
        LET LT == trees[k + 1]
            hs == topologically_sorted_clusters(LT)
        IN  [m \in 1..Len(hs) |->
                ClusterCrossingsData(E, LT, trees[k], hs[m], backwards, gnodes, ho)]]

\* zip(cols, trees[1:], data): a column is named by its index in columns, since the
\* items hold the very lists of columns
ZipItems(colidx, trees, data) ==
    [k \in 1..Len(data) |-> [col |-> colidx[k], LT |-> trees[k + 1], data |-> data[k]]]

\* lines 360-361 and 364-365 for the trees in the order of the sweep
ItemsOf(cols, colidx, E, trees, backwards, ho) ==
    ZipItems(colidx, trees,
             crossing_reduction_data(E, trees, backwards, Range(Flatten(cols)), ho))

\* lines 360-361: zip(columns[1:], trees[1:], forward_data)
ForwardItems(cols, E, T, ho) ==
    ItemsOf(cols, [k \in 1..(Len(cols) - 1) |-> k + 1], E,
            get_col_nesting_trees(cols, T, ho), FALSE, ho)

\* lines 363-365: zip(columns[-2::-1], trees[1:], backward_data) after trees.reverse()
BackwardItems(cols, E, T, ho) ==
    ItemsOf(cols, [k \in 1..(Len(cols) - 1) |-> Len(cols) - k], E,
            Reverse(get_col_nesting_trees(cols, T, ho)), TRUE, ho)

-----------------------------------------------------------------------------
(* minimize_crossings: one H of one pass. The `cr` fields of the nodes and clusters
   are the functions b (barycenter) and ranks (socket_ranks); random.uniform(0, 1) is
   the next element of the stream the seed fixes, pos counts the calls made *)

_RANDOM_AMOUNT == <<7, 100>>

None == <<>>

RMul(a, b) ==
    Rat((a[1] \div Gcd(Abs(a[1]), b[2])) * (b[1] \div Gcd(Abs(b[1]), a[2])),
        (a[2] \div Gcd(Abs(b[1]), a[2])) * (b[2] \div Gcd(Abs(a[1]), b[2])))

\* the call number pos + 1 of uniform(0, 1); the stream repeats
uniform(stream, pos) == stream[(pos % Len(stream)) + 1]

\* v.col.index(v)
ColIndex(cols, v) ==
    LET col == cols[CHOOSE k \in 1..Len(cols) : v \in Range(cols[k])]
    IN  IndexOf(col, v) - 1

\* stable insertion sort of seq by the rational key[x]
RECURSIVE InsertByRat(_, _, _)
InsertByRat(sorted, x, key) ==
    IF sorted = <<>> THEN <<x>>
    ELSE IF RLe(key[sorted[Len(sorted)]], key[x]) THEN Append(sorted, x)
    ELSE Append(InsertByRat(SubSeq(sorted, 1, Len(sorted) - 1), x, key), sorted[Len(sorted)])

RECURSIVE SortByRat(_, _)
SortByRat(seq, key) ==
    IF seq = <<>> THEN <<>>
    ELSE InsertByRat(SortByRat(SubSeq(seq, 1, Len(seq) - 1), key), seq[Len(seq)], key)

\* calc_socket_ranks with the increment 1 / len(sockets)
calc_socket_ranks_by_len(H, forwards, cols, ranks) ==
    LET fs == H.fixed_sockets
        new == [s \in UNION {Range(fs[v]) : v \in DOMAIN fs} |->
                   LET v == s[1]
                       n == Len(fs[v])
                       k == IndexOf(fs[v], s)
                       rank == ColIndex(cols, v) + 1
                   IN  IF forwards THEN Rat(rank * n - k, n) ELSE Rat(rank * n + k, n)]
    IN  new @@ ranks

\* calc_socket_ranks: the sockets of the fixed node v get the ranks
\* index + 1 -+ k / (len + 1), k = 1.., in the order of H.fixed_sockets[v]
calc_socket_ranks(H, forwards, cols, ranks) ==
    LET fs == H.fixed_sockets
        new == [s \in UNION {Range(fs[v]) : v \in DOMAIN fs} |->
                   LET v == s[1]
                       n == Len(fs[v]) + 1
                       k == IndexOf(fs[v], s)
                       rank == ColIndex(cols, v) + 1
                   IN  IF forwards THEN Rat(rank * n - k, n) ELSE Rat(rank * n + k, n)]
    IN  new @@ ranks

RECURSIVE RSum(_)
RSum(rs) == IF rs = <<>> THEN RInt(0) ELSE RAdd(Head(rs), RSum(Tail(rs)))

\* calc_barycenters: st = [b, pos]
RECURSIVE calc_barycenters(_, _, _, _, _)
calc_barycenters(ws, H, ranks, stream, st) ==
    IF ws = <<>> THEN st
    ELSE LET w == Head(ws)
             sockets == H.free_sockets[w]
             noise == RSub(RMul(uniform(stream, st.pos), _RANDOM_AMOUNT),
                           RDivInt(_RANDOM_AMOUNT, 2))
             weight == RAdd(RSum([k \in 1..Len(sockets) |-> ranks[sockets[k]]]), noise)
         IN  IF sockets = <<>> THEN calc_barycenters(Tail(ws), H, ranks, stream, st)
             ELSE calc_barycenters(Tail(ws), H, ranks, stream,
                                   [b |-> [st.b EXCEPT ![w] = RDivInt(weight, Len(sockets))],
                                    pos |-> st.pos + 1])

RECURSIVE RMax(_, _)
RMax(rs, default) ==
    IF rs = <<>> THEN default
    ELSE LET m == RMax(Tail(rs), Head(rs)) IN IF RLt(m, Head(rs)) THEN Head(rs) ELSE m

\* lines 159-164: the first iteration scatters the unknown barycenters
RECURSIVE FillRandom(_, _, _, _)
FillRandom(col, max_b, stream, st) ==
    IF col = <<>> THEN st
    ELSE IF st.b[Head(col)] # None THEN FillRandom(Tail(col), max_b, stream, st)
    ELSE FillRandom(Tail(col), max_b, stream,
                    [b |-> [st.b EXCEPT ![Head(col)] =
                               RSub(RMul(uniform(stream, st.pos), max_b), RInt(1))],
                     pos |-> st.pos + 1])

\* lines 166-172: later iterations put an unknown barycenter half way between its
\* predecessor's and the next known one
RECURSIVE FillBetween(_, _, _)
FillBetween(col, k, b) ==
    IF k > Len(col) THEN b
    ELSE IF b[col[k]] # None THEN FillBetween(col, k + 1, b)
    ELSE LET prev_b == IF k # 1 THEN b[col[k - 1]] ELSE RInt(0)
             known == SelectSeq(SubSeq(col, k + 1, Len(col)), LAMBDA w : b[w] # None)
             next_b == IF known # <<>> THEN b[known[1]] ELSE RAdd(prev_b, RInt(1))
         IN  FillBetween(col, k + 1, [b EXCEPT ![col[k]] = RDivInt(RAdd(prev_b, next_b), 2)])

fill_in_unknown_barycenters(col, is_first_iter, stream, st) ==
    IF is_first_iter
    THEN LET known == SelectSeq(col, LAMBDA v : st.b[v] # None)
             max_b == RAdd(RMax([k \in 1..Len(known) |-> st.b[known[k]]], RInt(0)), RInt(2))
         IN  FillRandom(col, max_b, stream, st)
    ELSE [b |-> FillBetween(col, 1, st.b), pos |-> st.pos]

\* the dummy nodes handle_constraints creates for merged clusters
FreshNames == <<"v_c1", "v_c2", "v_c3">>

\* lines 213-223: the group v_c takes the place of the ends s and t of the violated
\* constraint; G3 is GC after lines 209-219; m = [GC, b, L, deg, unconstrained, n],
\* n counts the merges
MergedGroup(m, s, t, v_c, G3) ==
    [GC |-> G3,
     b |-> (v_c :> MergedBarycenter(m.b, m.deg, s, t)) @@ m.b,
     L |-> (v_c :> (m.L[s] \o m.L[t])) @@ m.L,
     deg |-> (v_c :> (m.deg[s] + m.deg[t])) @@ m.deg,
     unconstrained |-> IF v_c \notin Range(G3.nodes)
                       THEN m.unconstrained \cup {v_c} ELSE m.unconstrained,
     n |-> m.n + 1]

\* lines 217-219: `if (v_c, v_c) in GC.edges: GC.remove_edge(v_c, v_c)`
WithoutSelfLoop(G2, v_c) ==
    IF <<v_c, v_c>> \in Range(G2.edges) THEN RemoveEdge(G2, <<v_c, v_c>>) ELSE G2

\* lines 209-216: the edges of s and t go to v_c, s and t leave GC
Rewired(G, s, t, v_c) ==
    WithoutSelfLoop(RemoveNodes(RewireConstraints(G, s, t, v_c), {s, t}), v_c)

\* lines 203-224: merge the ends of violated constraints until none is left; c is the
\* constraint find_violated_constraint returned, <<>> for None
RECURSIVE MergeViolated(_)
MergeConstraint(m, c) ==
    IF c = <<>> THEN m
    ELSE MergeViolated(MergedGroup(m, c[1], c[2], FreshNames[m.n + 1],
                                   Rewired(m.GC, c[1], c[2], FreshNames[m.n + 1])))

MergeViolated(m) == MergeConstraint(m, find_violated_constraint(m.GC, m.b))

\* lines 194-201: the state the merge loop starts in; G0 is GC
BeforeMerges(H, b, G0) ==
    [GC |-> G0, b |-> b,
     L |-> [v \in Range(H.free_col) |-> <<v>>],
     deg |-> [v \in Range(G0.nodes) |->
                 Len(SelectSeq(H.graph, LAMBDA d : d.c = v \/ d.s = v))],
     unconstrained |-> Range(H.free_col) \ Range(G0.nodes),
     n |-> 0]

\* lines 226-228: `for i, v in enumerate(chain(*[L[v] for v in groups]))`
WriteRanks(b, order) ==
    [v \in DOMAIN b |-> IF v \in Range(order) THEN RInt(IndexOf(order, v) - 1) ELSE b[v]]

\* line 225: sorted(unconstrained + list(GC.nodes)) keeps the iteration order of the
\* set among equal barycenters, and the members of the groups follow in that order
GroupsInOrder(m, ho) ==
    LET groups == SortByRat(SetIter(m.unconstrained \cup Range(m.GC.nodes),
                                    ho \o FreshNames), m.b)
    IN  Flatten([k \in 1..Len(groups) |-> m.L[groups[k]]])

\* handle_constraints(H): the barycenters b with the dense ranks of H.free_col written
RanksOfGroups(m, b, ho) == WriteRanks(b, GroupsInOrder(m, ho))

handle_constraints(H, b, ho) ==
    RanksOfGroups(
        MergeViolated(BeforeMerges(H, b, ChainGraph(EmptyGraph, H.constrained_clusters))),
        b, ho)

\* pos(w) of get_cross_count (lines 239-241)
SocketPosition(H, b, cols, w) ==
    IF w[1] \in Range(H.free_col) THEN b[w[1]][1] ELSE ColIndex(cols, w[1])

\* `key` of lines 327-331 for the clusters of cs; None where .index raises ValueError
ConstraintKey(cs, first_item, fixed_col, parent, b) ==
    [c \in Range(cs) |->
        IF first_item
        THEN IF \E k \in 1..Len(fixed_col) : parent[fixed_col[k]] = c
             THEN RInt((CHOOSE k \in 1..Len(fixed_col) :
                           /\ parent[fixed_col[k]] = c
                           /\ \A j \in 1..(k - 1) : parent[fixed_col[j]] # c) - 1)
             ELSE None
        ELSE b[c]]

\* line 339 for one H: r is what get_cross_count returned, H.N, H.S and
\* H.bipartite_edges as it left them; st = [cols, b, ranks, pos, cross_count, ok]
Counted(H1, rks, pos, b3, st, r) ==
    [H |-> [H1 EXCEPT !.N = r.N, !.S = r.S, !.bipartite_edges = r.edges],
     st |-> [cols |-> st.cols, b |-> b3, ranks |-> rks, pos |-> pos,
             cross_count |-> st.cross_count + r.count, ok |-> TRUE]]

\* line 339: get_cross_count(H) with the barycenters b3 handle_constraints wrote
CountCrossings(H1, rks, pos, b3, st) ==
    Counted(H1, rks, pos, b3, st,
            get_cross_count(H1.N, H1.S, H1.bipartite_edges,
                            [w \in Range(H1.N) \cup Range(H1.S) |->
                                SocketPosition(H1, b3, st.cols, w)]))

\* line 338: handle_constraints(H) on the barycenters s2 = [b, pos]
Constrain(H1, rks, s2, g, st) ==
    CountCrossings(H1, rks, s2.pos, handle_constraints(H1, s2.b, g.hash_order), st)

\* lines 336-337: calc_barycenters(H), fill_in_unknown_barycenters(H.free_col, ...)
Barycenters(H1, rks, is_first_iter, g, st) ==
    Constrain(H1, rks,
              fill_in_unknown_barycenters(
                  H1.free_col, is_first_iter, g.stream,
                  calc_barycenters(H1.free_col, H1, rks, g.stream,
                                   [b |-> st.b, pos |-> st.pos])),
              g, st)

\* line 335: calc_socket_ranks(H, forwards)
SocketRanks(H1, forwards, is_first_iter, g, st) ==
    Barycenters(H1, calc_socket_ranks(H1, forwards, st.cols, st.ranks), is_first_iter, g, st)

\* line 334: H.constrained_clusters.sort(key=key); the pass stops with ok = FALSE
\* where key raises
SortConstraints(H, key, forwards, is_first_iter, g, st) ==
    IF \E c \in DOMAIN key : key[c] = None
    THEN [H |-> H, st |-> [st EXCEPT !.ok = FALSE]]
    ELSE SocketRanks([H EXCEPT !.constrained_clusters = SortByRat(@, key)],
                     forwards, is_first_iter, g, st)

\* lines 334-339 for one H
ProcessH(H, first_item, forwards, is_first_iter, g, st) ==
    SortConstraints(H,
                    ConstraintKey(H.constrained_clusters, first_item,
                                  IF forwards THEN st.cols[1] ELSE st.cols[Len(st.cols)],
                                  g.parent, st.b),
                    forwards, is_first_iter, g, st)

\* H of data[k] replaced by what lines 334-339 left of it
StoreH(data, k, p) == [data |-> [data EXCEPT ![k] = p.H], st |-> p.st]

\* `for H in data` (line 333): r = [data, st]
RECURSIVE ProcessData(_, _, _, _, _, _)
ProcessData(k, first_item, forwards, is_first_iter, g, r) ==
    IF k > Len(r.data) \/ ~r.st.ok THEN r
    ELSE ProcessData(k + 1, first_item, forwards, is_first_iter, g,
                     StoreH(r.data, k,
                            ProcessH(r.data[k], first_item, forwards, is_first_iter, g, r.st)))

\* get_new_col_order with the children of a cluster left in the order of LT
RECURSIVE get_new_col_order_unsorted(_, _, _)
get_new_col_order_unsorted(v, LT, b) ==
    IF Adj(LT, v) # <<>>
    THEN Flatten([k \in 1..Len(Adj(LT, v)) |-> get_new_col_order_unsorted(Adj(LT, v)[k], LT, b)])
    ELSE <<v>>

\* get_new_col_order(v, LT): the nodes below v, every cluster's children by barycenter
RECURSIVE get_new_col_order(_, _, _)
get_new_col_order(v, LT, b) ==
    IF Adj(LT, v) # <<>>
    THEN LET ws == SortByRat(Adj(LT, v), b)
         IN  Flatten([k \in 1..Len(ws) |-> get_new_col_order(ws[k], LT, b)])
    ELSE <<v>>

\* line 343: col.sort(key=new_order.index)
SortedByOrder(col, new_order) ==
    SortByKey(col, [v \in Range(col) |-> IndexOf(new_order, v)])

\* lines 341-343 for the item number j, p = [data, st] being what `for H in data` left
SortColumn(items, j, p) ==
    IF ~p.st.ok THEN [items |-> items, st |-> p.st]
    ELSE [items |-> [items EXCEPT ![j].data = p.data],
          st |-> [p.st EXCEPT !.cols[items[j].col] =
                     SortedByOrder(@, get_new_col_order(
                                          topologically_sorted_clusters(items[j].LT)[1],
                                          items[j].LT, p.st.b))]]

\* lines 326-343 for the item number j: r = [items, st]
ProcessItem(j, forwards, is_first_iter, g, r) ==
    SortColumn(r.items, j,
               ProcessData(1, j = 1, forwards, is_first_iter, g,
                           [data |-> r.items[j].data, st |-> r.st]))

RECURSIVE ProcessItems(_, _, _, _, _)
ProcessItems(j, forwards, is_first_iter, g, r) ==
    IF j > Len(r.items) \/ ~r.st.ok THEN r
    ELSE ProcessItems(j + 1, forwards, is_first_iter, g,
                      ProcessItem(j, forwards, is_first_iter, g, r))

-----------------------------------------------------------------------------
(* minimize_crossings and minimized_cross_count as steps on the record s of the
   program's variables: one iteration of the inner loop, and the end of a restart *)

_ITERATIONS == 15

\* sort_internal_columns: every H.free_col follows the order its members (for a
\* cluster: its first descendant) have in the column
SortInternal(items, cols) ==
    [j \in 1..Len(items) |->
        LET base_free_col == cols[items[j].col]
            LT == items[j].LT
            key(v) == IF Adj(LT, v) # <<>>
                      THEN IndexOf(base_free_col,
                                   SelectSeq(base_free_col,
                                             LAMBDA w : w \in descendants(LT, v))[1])
                      ELSE IndexOf(base_free_col, v)
        IN  [items[j] EXCEPT !.data =
                [m \in 1..Len(items[j].data) |->
                    [items[j].data[m] EXCEPT !.free_col =
                        SortByKey(@, [v \in Range(items[j].data[m].free_col) |-> key(v)])]]]]

\* the columns left as they are
KeepColumns(cols, best) == cols

\* `for col, best_col in zip(columns, best_columns): col.sort(key=best_col.index)`
RevertColumns(cols, best) ==
    [k \in 1..Len(cols) |->
        SortByKey(cols[k], [v \in Range(cols[k]) |-> IndexOf(best[k], v)])]

\* v.cr.reset() for the nodes and clusters of the trees of forward_items
Reset(c, items) ==
    LET nodes_and_clusters == UNION {Range(items[j].LT.nodes) : j \in 1..Len(items)}
    IN  [b |-> [v \in DOMAIN c.b |-> IF v \in nodes_and_clusters THEN None ELSE c.b[v]],
         ranks |-> [w \in {x \in DOMAIN c.ranks : x[1] \notin nodes_and_clusters} |->
                       c.ranks[w]]]

\* lines 345-351: s1 is the record after the pass, st what the pass computed and old
\* the count before it: an improvement is kept and the loop goes on, anything else
\* restores the best columns and returns
ComparePass(s1, st, old) ==
    IF ~st.ok THEN [s1 EXCEPT !.pc = "error"]
    ELSE IF LessThan(st.cross_count, old)
    THEN [s1 EXCEPT !.columns = st.cols,
                    !.forward_items = SortInternal(@, st.cols),
                    !.backward_items = SortInternal(@, st.cols),
                    !.pass_best_columns = st.cols]
    ELSE [s1 EXCEPT !.columns = RevertColumns(st.cols, s1.pass_best_columns),
                    !.pc = "returned"]

\* lines 314-343 done: r = [items, st] is what the pass over the items left
AfterPass(s, forwards, r) ==
    ComparePass([s EXCEPT !.cr = [b |-> r.st.b, ranks |-> r.st.ranks],
                          !.i = s.i + 1,
                          !.old_cross_count = s.cross_count,
                          !.rng_pos = r.st.pos,
                          !.cross_count = r.st.cross_count,
                          !.forward_items = IF forwards THEN r.items ELSE @,
                          !.backward_items = IF forwards THEN @ ELSE r.items],
                r.st, s.cross_count)

\* lines 321-343: the pass over forward_items or backward_items, c being the `cr`
\* fields after the reset
Pass(s, forwards, c) ==
    AfterPass(s, forwards,
              ProcessItems(1, forwards, s.i + 1 = 0, s.input,
                           [items |-> IF forwards THEN s.forward_items
                                      ELSE s.backward_items,
                            st |-> [cols |-> s.columns, b |-> c.b, ranks |-> c.ranks,
                                    pos |-> s.rng_pos, cross_count |-> 0, ok |-> TRUE]]))

\* one iteration of `while True` in minimized_cross_count (lines 314-351)
InnerIteration(s) ==
    IF s.cross_count = 0
    THEN [s EXCEPT !.cr = Reset(s.cr, s.forward_items), !.i = s.i + 1,
                   !.old_cross_count = s.cross_count, !.pc = "returned"]
    ELSE Pass(s, (s.i + 1) % 2 = 0, Reset(s.cr, s.forward_items))

\* best_cross_count assigned whatever the restart returned
KeepLastCount(s, c) == TRUE

\* line 374: the restart beat the best count
BeatsBest(s, c) == LessThan(c, s.best_cross_count)

\* lines 372-381 after minimized_cross_count returned old_cross_count: keep the
\* better result, stop at 0 or after _ITERATIONS restarts, else call again
RestartEnd(s) ==
    LET c == s.old_cross_count
        better == BeatsBest(s, c)
        s1 == IF better
              THEN [s EXCEPT !.best_cross_count = c, !.best_columns = s.columns]
              ELSE [s EXCEPT !.columns = RevertColumns(s.columns, s.best_columns)]
    IN  IF (better /\ c = 0) \/ s.restarts + 1 >= _ITERATIONS
        THEN [s1 EXCEPT !.pc = "done", !.restarts = s.restarts + 1]
        ELSE [s1 EXCEPT !.pc = "pass", !.restarts = s.restarts + 1,
                        !.i = -1, !.cross_count = Inf]

\* lines 357-371 and the first call of minimized_cross_count; g is the input
McStart(g) ==
    [pc |-> "pass", input |-> g, columns |-> g.cols,
     forward_items |-> ForwardItems(g.cols, g.E, g.T, g.hash_order),
     backward_items |-> BackwardItems(g.cols, g.E, g.T, g.hash_order),
     cr |-> [b |-> [v \in Range(g.T.nodes) |-> None], ranks |-> <<>>],
     i |-> -1, cross_count |-> Inf, old_cross_count |-> Inf,
     pass_best_columns |-> g.cols,
     best_cross_count |-> Inf, best_columns |-> g.cols,
     restarts |-> 0, rng_pos |-> 0]

\* the whole invocation from s on
RECURSIVE RunToEnd(_)
RunToEnd(s) ==
    IF s.pc = "pass" THEN RunToEnd(InnerIteration(s))
    ELSE IF s.pc = "returned" THEN RunToEnd(RestartEnd(s))
    ELSE s

-----------------------------------------------------------------------------
(* minimize_crossings: the inputs and the actions *)

\* length of the period of the random stream
StreamLen == 3
\* the values uniform(0, 1) takes: its two ends and its middle
UniformValues == {<<0, 1>>, <<1, 2>>, <<1, 1>>}
Streams == [1..StreamLen -> UniformValues]

\* ClusterGraph.T: the edges (v.cluster, v) of every node and of its clusters, node
\* by node (get_nesting_relations)
NestingRelations(pairs) == add_edges_from(EmptyGraph, pairs)

\* v.cluster
ClusterOf(T) ==
    [v \in {e[2] : e \in Range(T.edges)} |-> (CHOOSE e \in Range(T.edges) : e[2] = v)[1]]

\* every node and cluster of the inputs
AllElements ==
    <<"R", "K", "K1", "K2", "A", "B", "C", "D", "S", "T1", "T2", "P1", "Q1", "P2", "Q2">>

\* the orders in which sets iterate: the nodes and clusters as listed, or reversed
HashOrders(elements) == {elements, Reverse(elements)}

\* column0 = [A, B], column1 = [C, D], edges A->C, A->D, B->C, no frame; the sockets
\* of A used by its two edges and the sockets of C used by its two edges vary
TwoByTwo ==
    {[cols |-> <<<<"A", "B">>, <<"C", "D">>>>,
      T |-> NestingRelations(<<<<"R", "A">>, <<"R", "B">>, <<"R", "C">>, <<"R", "D">>>>),
      E |-> <<<<"A", "C", a1, c1>>, <<"A", "D", a2, 0>>, <<"B", "C", 0, c2>>>>] :
        a1 \in SocketIdx, a2 \in SocketIdx, c1 \in SocketIdx, c2 \in SocketIdx}

\* column0 = [S], column1 = [D, T1, T2] with T1 and T2 in the frame K; S has three
\* outputs, one for each node of column1
Nested ==
    {[cols |-> <<<<"S">>, <<"D", "T1", "T2">>>>,
      T |-> NestingRelations(<<<<"R", "S">>, <<"R", "D">>, <<"K", "T1">>, <<"R", "K">>,
                               <<"K", "T2">>>>),
      E |-> <<<<"S", "T1", p[1], 0>>, <<"S", "D", p[2], 0>>, <<"S", "T2", p[3], 0>>>>] :
        p \in Perms({0, 1, 2})}

\* column0 = [A, B], column1 = [C, D], every node of column0 linked to every node of
\* column1, A twice to C and B twice to D
Weighted ==
    {[cols |-> <<<<"A", "B">>, <<"C", "D">>>>,
      T |-> NestingRelations(<<<<"R", "A">>, <<"R", "B">>, <<"R", "C">>, <<"R", "D">>>>),
      E |-> <<<<"A", "C", 0, 0>>, <<"A", "C", 1, 1>>, <<"A", "D", 0, 0>>,
              <<"B", "C", 0, 2>>, <<"B", "D", 0, 1>>, <<"B", "D", 1, 2>>>>]}

\* column0 = [P1, Q1], column1 = [P2, Q2], P1 and P2 in the frame K1, Q1 and Q2 in
\* the frame K2, and links from each frame into the other
Framed ==
    {[cols |-> <<<<"P1", "Q1">>, <<"P2", "Q2">>>>,
      T |-> NestingRelations(<<<<"K1", "P1">>, <<"R", "K1">>, <<"K2", "Q1">>, <<"R", "K2">>,
                               <<"K1", "P2">>, <<"K2", "Q2">>>>),
      E |-> <<<<"P1", "Q2", 0, 0>>, <<"Q1", "P2", 0, 0>>>>]}

\* column0 = [P1, A, P2] as add_columns listed it, P1 and P2 in the frame K1 and A
\* outside it; column1 = [C] with the link P1 -> C, or column1 = [C, D] with the
\* links P1 -> D, A -> C and P2 -> D
Split ==
    {[cols |-> <<<<"P1", "A", "P2">>, <<"C">>>>,
      T |-> NestingRelations(<<<<"K1", "P1">>, <<"R", "K1">>, <<"R", "A">>, <<"K1", "P2">>,
                               <<"R", "C">>>>),
      E |-> <<<<"P1", "C", 0, 0>>>>],
     [cols |-> <<<<"P1", "A", "P2">>, <<"C", "D">>>>,
      T |-> NestingRelations(<<<<"K1", "P1">>, <<"R", "K1">>, <<"R", "A">>, <<"K1", "P2">>,
                               <<"R", "C">>, <<"R", "D">>>>),
      E |-> <<<<"P1", "D", 0, 0>>, <<"A", "C", 0, 0>>, <<"P2", "D", 0, 1>>>>]}

\* column0 = [A], column1 = [B], the frame K1 inside the frame K, A in K1 and B in K,
\* and the link A -> B
Deep ==
    {[cols |-> <<<<"A">>, <<"B">>>>,
      T |-> NestingRelations(<<<<"K1", "A">>, <<"K", "K1">>, <<"R", "K">>, <<"K", "B">>>>),
      E |-> <<<<"A", "B", 0, 0>>>>]}

\* the inputs but for the random stream
McInputs ==
    {[cols |-> g.cols, T |-> g.T, E |-> g.E, parent |-> ClusterOf(g.T),
      stream |-> <<>>, hash_order |-> ho] :
        g \in TwoByTwo \cup Nested \cup Weighted \cup Framed \cup Split \cup Deep,
        ho \in HashOrders(AllElements)}

McRec ==
    [pc |-> mcPc, input |-> mc_input, columns |-> columns,
     forward_items |-> forward_items, backward_items |-> backward_items,
     cr |-> cr, i |-> iteration, cross_count |-> cross_count,
     old_cross_count |-> old_cross_count, pass_best_columns |-> pass_best_columns,
     best_cross_count |-> best_cross_count, best_columns |-> best_columns,
     restarts |-> restarts, rng_pos |-> rng_pos]

McSet(s) ==
    /\ mcPc' = s.pc
    /\ mc_input' = s.input
    /\ columns' = s.columns
    /\ forward_items' = s.forward_items
    /\ backward_items' = s.backward_items
    /\ cr' = s.cr
    /\ iteration' = s.i
    /\ cross_count' = s.cross_count
    /\ old_cross_count' = s.old_cross_count
    /\ pass_best_columns' = s.pass_best_columns
    /\ best_cross_count' = s.best_cross_count
    /\ best_columns' = s.best_columns
    /\ restarts' = s.restarts
    /\ rng_pos' = s.rng_pos

\* the variables hold the record s, the stream being any the seed may stand for
McIs(s) ==
    /\ mcPc = s.pc
    /\ columns = s.columns
    /\ forward_items = s.forward_items
    /\ backward_items = s.backward_items
    /\ cr = s.cr
    /\ iteration = s.i
    /\ cross_count = s.cross_count
    /\ old_cross_count = s.old_cross_count
    /\ pass_best_columns = s.pass_best_columns
    /\ best_cross_count = s.best_cross_count
    /\ best_columns = s.best_columns
    /\ restarts = s.restarts
    /\ rng_pos = s.rng_pos
    /\ \E st \in Streams : mc_input = [s.input EXCEPT !.stream = st]

InitMC == \E g \in McInputs : McIs(McStart(g))

\* a pass of the inner loop: forward when i is even, backward when odd
McPass == mcPc = "pass" /\ cross_count # 0 /\ McSet(InnerIteration(McRec)) /\ FrameMC

\* the inner loop finds cross_count == 0 and breaks
McBreakOnZero == mcPc = "pass" /\ cross_count = 0 /\ McSet(InnerIteration(McRec)) /\ FrameMC

\* minimized_cross_count returned: lines 374-381
McRestartEnd == mcPc = "returned" /\ McSet(RestartEnd(McRec)) /\ FrameMC

NextMC == McPass \/ McBreakOnZero \/ McRestartEnd

-----------------------------------------------------------------------------
(* calc_deflection: an edge of G is [u, w, fy, ty] with from_socket = the socket of u
   at the offset fy and to_socket = the socket of w at the offset ty; seg[v] is
   v.segment and y[v] the rational v.y *)

_DEFLECTION_DAMPENING == <<1, 10>>

Modes == {"FORW_PENDULUM", "BACKW_PENDULUM", "RUBBER"}

\* get_out_edges without the test `w.segment != v.segment`
get_out_edges_all(E, seg, v) == {e \in E : e.u = v}

\* get_out_edges(G, v): the edges from v to the nodes of other segments
get_out_edges(E, seg, v) == {e \in E : e.u = v /\ seg[e.w] # seg[v]}

\* get_in_edges(G, v): the edges into v from the nodes of other segments
get_in_edges(E, seg, v) == {e \in E : e.w = v /\ seg[e.u] # seg[v]}

\* line 192: to_socket.owner.y + to_socket.y - (v.y + from_socket.y)
OutPull(e, y) == RAdd(RSub(y[e.w], y[e.u]), RInt(e.ty - e.fy))

\* line 197: from_socket.owner.y + from_socket.y - (v.y + to_socket.y)
InPull(e, y) == RAdd(RSub(y[e.u], y[e.w]), RInt(e.fy - e.ty))

RECURSIVE RSumOver(_, _)
RSumOver(X, val) ==
    IF X = {} THEN RInt(0)
    ELSE LET x == CHOOSE z \in X : TRUE IN RAdd(val[x], RSumOver(X \ {x}, val))

\* lines 187-198 for the node v: node_deflection and edge_weight_sum
NodeDeflection(E, seg, md, y, v) ==
    LET outs == IF md # "FORW_PENDULUM" THEN get_out_edges(E, seg, v) ELSE {}
        ins == IF md # "BACKW_PENDULUM" THEN get_in_edges(E, seg, v) ELSE {}
    IN  [node_deflection |-> RAdd(RSumOver(outs, [e \in outs |-> OutPull(e, y)]),
                                  RSumOver(ins, [e \in ins |-> InPull(e, y)])),
         edge_weight_sum |-> Cardinality(outs) + Cardinality(ins)]

\* lines 200-202: a node with edges adds its mean pull and counts once
AddNode(acc, nd) ==
    IF nd.edge_weight_sum > 0
    THEN [segment_deflection |-> RAdd(acc.segment_deflection,
                                      RDivInt(nd.node_deflection, nd.edge_weight_sum)),
          node_weight_sum |-> acc.node_weight_sum + 1]
    ELSE acc

\* `for v in segment` (lines 186-202)
RECURSIVE SegmentDeflection(_, _, _, _, _, _)
SegmentDeflection(E, seg, md, y, vs, acc) ==
    IF vs = <<>> THEN acc
    ELSE SegmentDeflection(E, seg, md, y, Tail(vs),
                           AddNode(acc, NodeDeflection(E, seg, md, y, Head(vs))))

\* lines 204-205
Dampened(acc) ==
    [deflection |-> IF acc.node_weight_sum > 0
                    THEN RDivInt(RMul(_DEFLECTION_DAMPENING, acc.segment_deflection),
                                 acc.node_weight_sum)
                    ELSE RInt(0),
     weight |-> acc.node_weight_sum]

\* calc_deflection(G, segment, mode): what it leaves in segment.deflection and
\* segment.weight
calc_deflection(E, seg, segment, md, y) ==
    Dampened(SegmentDeflection(E, seg, md, y, segment,
                               [segment_deflection |-> RInt(0), node_weight_sum |-> 0]))

\* the segment [a, b] between a node p and a node q of two other segments
DfSegment == <<"a", "b">>
DfSegOf == ("a" :> 1) @@ ("b" :> 1) @@ ("p" :> 2) @@ ("q" :> 3)

\* the edges G may have: into and out of both nodes of the segment, and inside it
DfCandidates ==
    {[u |-> "p", w |-> "a", fy |-> 0, ty |-> -1],
     [u |-> "p", w |-> "b", fy |-> -1, ty |-> 0],
     [u |-> "a", w |-> "q", fy |-> 0, ty |-> -2],
     [u |-> "b", w |-> "q", fy |-> -1, ty |-> -1],
     [u |-> "a", w |-> "b", fy |-> -2, ty |-> 0],
     [u |-> "q", w |-> "b", fy |-> 0, ty |-> -3]}

\* the y of p and of q; the nodes of the segment are at 0
DfOutsideYs == {-2, 3}

InitDF ==
    /\ dfPc = "call"
    /\ df_mode \in Modes
    /\ df_edges \in SUBSET DfCandidates
    /\ \E py \in DfOutsideYs, qy \in DfOutsideYs :
           df_y = ("a" :> RInt(0)) @@ ("b" :> RInt(0)) @@ ("p" :> RInt(py)) @@ ("q" :> RInt(qy))
    /\ segment_deflection = RInt(0)
    /\ segment_weight = 0

\* the call calc_deflection(G, segment, mode)
DfCalc ==
    /\ dfPc = "call"
    /\ segment_deflection' = calc_deflection(df_edges, DfSegOf, DfSegment, df_mode, df_y).deflection
    /\ segment_weight' = calc_deflection(df_edges, DfSegOf, DfSegment, df_mode, df_y).weight
    /\ dfPc' = "done"
    /\ UNCHANGED <<df_mode, df_edges, df_y>>
    /\ FrameDF

NextDF == DfCalc

-----------------------------------------------------------------------------
(* create_unbalanced_placement, merge_regions and the loop of balance_placement on
   one graph. The input inp is [cols, linear_segments, seg, E, height, cluster,
   framed]: the columns, the segments as sort_linear_segments left them, v.segment as
   an index into them, the edges [u, w, fy, ty] of G, v.height, v.cluster and the
   clusters that have a frame (cluster.node). A segment's fields are kept in
   S[s] = [deflection, weight, ref_segment], ref_segment = 0 standing for None *)

\* config.MARGIN.y
MarginY == 1

\* line 152: heights[s]
SegmentHeight(inp, s) ==
    CHOOSE h \in {inp.height[v] : v \in Range(inp.linear_segments[s])} :
        \A v \in Range(inp.linear_segments[s]) : inp.height[v] <= h

\* v.col
ColOf(inp, v) == inp.cols[CHOOSE j \in 1..Len(inp.cols) : v \in Range(inp.cols[j])]

\* line 154: w.y - heights[w.segment] of the placed nodes w of the columns of segment s
PlacedValues(inp, y, s) ==
    {y[w][1] - SegmentHeight(inp, inp.seg[w]) :
        w \in {x \in UNION {Range(ColOf(inp, v)) : v \in Range(inp.linear_segments[s])} :
                  y[x] # None}}

\* line 155: min(values, default=0) - config.MARGIN.y
LowestY(values) ==
    (IF values = {} THEN 0 ELSE CHOOSE m \in values : \A x \in values : m <= x) - MarginY

\* lines 154-157 for segment s
PlaceSegment(inp, y, s) ==
    [v \in DOMAIN y |->
        IF v \in Range(inp.linear_segments[s]) THEN RInt(LowestY(PlacedValues(inp, y, s)))
        ELSE y[v]]

\* create_unbalanced_placement(linear_segments) from segment s on
RECURSIVE create_unbalanced_placement(_, _, _)
create_unbalanced_placement(inp, y, s) ==
    IF s > Len(inp.linear_segments) THEN y
    ELSE create_unbalanced_placement(inp, PlaceSegment(inp, y, s), s + 1)

\* Segment.region(): the end of the chain of ref_segment
RECURSIVE region(_, _)
region(S, s) == IF S[s].ref_segment = 0 THEN s ELSE region(S, S[s].ref_segment)

\* line 224: v and w keep their gap when their regions r1 and r2 are deflected
KeepsGap(S, inp, y, v, w, r1, r2) ==
    RLe(RAdd(y[w], S[r2].deflection),
        RSub(RAdd(y[v], S[r1].deflection), RInt(inp.height[v] + MarginY)))

\* lines 218-225: the pair v, w is not skipped
MustMerge(S, inp, y, v, w, r1, r2) ==
    /\ S[r1].weight + S[r2].weight # 0
    /\ r1 # r2
    /\ (inp.cluster[v] \notin inp.framed \/ inp.cluster[v] # inp.cluster[w]) =>
           ~KeepsGap(S, inp, y, v, w, r1, r2)

\* lines 227-231
Merged(S, r1, r2) ==
    [S EXCEPT ![r2].deflection =
                  RDivInt(RAdd(RMulInt(S[r2].deflection, S[r2].weight),
                               RMulInt(S[r1].deflection, S[r1].weight)),
                          S[r1].weight + S[r2].weight),
              ![r2].weight = S[r1].weight + S[r2].weight,
              ![r1].ref_segment = r2]

\* lines 214-233 for the pair v, w; m = [S, prev_region, changed] and r2 is
\* w.segment.region()
PairStep(m, inp, y, v, w, r2) ==
    IF MustMerge(m.S, inp, y, v, w, m.prev_region, r2)
    THEN [S |-> Merged(m.S, m.prev_region, r2), prev_region |-> r2, changed |-> TRUE]
    ELSE [m EXCEPT !.prev_region = r2]

\* `for v, w in pairwise(col)` from position k on
RECURSIVE ColSweep(_, _, _, _, _)
ColSweep(m, inp, y, col, k) ==
    IF k >= Len(col) THEN m
    ELSE ColSweep(PairStep(m, inp, y, col[k], col[k + 1],
                           region(m.S, inp.seg[col[k + 1]])),
                  inp, y, col, k + 1)

\* `for col in columns` from column j on (lines 211-233)
RECURSIVE ColumnsSweep(_, _, _, _)
ColumnsSweep(m, inp, y, j) ==
    IF j > Len(inp.cols) THEN m
    ELSE ColumnsSweep(ColSweep([m EXCEPT !.prev_region = region(m.S, inp.seg[inp.cols[j][1]])],
                        inp, y, inp.cols[j], 1),
               inp, y, j + 1)

\* the sweep m changed something: another one, or the result
RECURSIVE AfterSweep(_, _, _)

\* merge_regions that joins nothing
merge_regions_none(S, inp, y) == S

\* merge_regions(columns): sweeps until one changes nothing
merge_regions(S, inp, y) ==
    AfterSweep(ColumnsSweep([S |-> S, prev_region |-> 0, changed |-> FALSE], inp, y, 1), inp, y)

AfterSweep(m, inp, y) == IF m.changed THEN merge_regions(m.S, inp, y) ELSE m.S

\* lines 248-250: ref_segment = None and calc_deflection for every segment
CalcAll(inp, md, y) ==
    [s \in 1..Len(inp.linear_segments) |->
        [deflection |-> calc_deflection(inp.E, inp.seg, inp.linear_segments[s], md, y).deflection,
         weight |-> calc_deflection(inp.E, inp.seg, inp.linear_segments[s], md, y).weight,
         ref_segment |-> 0]]

RAbs(a) == <<Abs(a[1]), a[2]>>

\* line 251 summed over the segments: total_deflection
TotalDeflection(S) == RSumOver(DOMAIN S, [s \in DOMAIN S |-> RAbs(S[s].deflection)])

\* lines 255-258: every node moves by the deflection of its segment's region
Deflect(S, inp, y) ==
    [v \in DOMAIN y |-> RAdd(y[v], S[region(S, inp.seg[v])].deflection)]

\* math.inf among the rationals, and a < b where either may be math.inf
RInf == <<1, 0>>
RLessThan(a, b) == a # RInf /\ (b = RInf \/ RLt(a, b))

\* lines 261-268: b is the record of the loop's variables
PendulumNext(b, total) ==
    IF b.pendulum_iters - 1 <= 0
       /\ (RLessThan(total, b.prev_total_deflection) \/ -(b.pendulum_iters - 1) > _ITERS)
    THEN [b EXCEPT !.pendulum_iters = @ - 1, !.mode = "RUBBER",
                   !.prev_total_deflection = RInf]
    ELSE [b EXCEPT !.pendulum_iters = @ - 1,
                   !.mode = IF @ = "FORW_PENDULUM" THEN "BACKW_PENDULUM"
                            ELSE "FORW_PENDULUM",
                   !.prev_total_deflection = total]

\* line 270
RubberReady(prev, total) ==
    \/ ~RLessThan(total, prev)
    \/ prev # RInf /\ RLt(RMulInt(RSub(prev, total), _ITERS), RInt(_THRESH_FAC))

\* lines 270-273
RubberNext(b, total) ==
    [b EXCEPT !.ready = RubberReady(b.prev_total_deflection, total),
              !.prev_total_deflection = total,
              !.final_iters = IF RubberReady(b.prev_total_deflection, total)
                              THEN @ - 1 ELSE @]

\* lines 260-273
LoopNext(b, total) ==
    IF b.mode = "RUBBER" THEN RubberNext(b, total) ELSE PendulumNext(b, total)

\* iterations of the loop of balance_placement that are followed
MaxPlIters == 6

\* nobody has a frame but the cluster K
PlInput(cols, segs, E, height, cluster) ==
    [cols |-> cols, linear_segments |-> segs,
     seg |-> [v \in UNION {Range(c) : c \in Range(cols)} |->
                 CHOOSE s \in 1..Len(segs) : v \in Range(segs[s])],
     E |-> E, height |-> height, cluster |-> cluster, framed |-> {"K"}]

\* column0 = [a, b], column1 = [c, d], links a -> c, a -> d, b -> d: every node is a
\* segment of its own; the heights of a and c, the outputs of a and the cluster of c
\* and d vary
PlFlat ==
    {PlInput(<<<<"a", "b">>, <<"c", "d">>>>, segs,
             {[u |-> "a", w |-> "c", fy |-> f1, ty |-> 0],
              [u |-> "a", w |-> "d", fy |-> f2, ty |-> 0],
              [u |-> "b", w |-> "d", fy |-> 0, ty |-> -1]},
             ("a" :> ha) @@ ("b" :> 1) @@ ("c" :> hc) @@ ("d" :> 1),
             ("a" :> "R") @@ ("b" :> "R") @@ ("c" :> k) @@ ("d" :> k)) :
        segs \in {<<<<"a">>, <<"b">>, <<"c">>, <<"d">>>>,
                  <<<<"a">>, <<"c">>, <<"b">>, <<"d">>>>},
        f1 \in {0, -1}, f2 \in {-1, -2}, ha \in {1, 2}, hc \in {1, 2}, k \in {"R", "K"}}

\* column0 = [a, b], column1 = [c, d], column2 = [e], links a -> c, b -> d, c -> e and
\* d -> e: the segments [a, c], [e] and [b, d]
PlChain ==
    {PlInput(<<<<"a", "b">>, <<"c", "d">>, <<"e">>>>,
             <<<<"a", "c">>, <<"e">>, <<"b", "d">>>>,
             {[u |-> "a", w |-> "c", fy |-> 0, ty |-> 0],
              [u |-> "b", w |-> "d", fy |-> 0, ty |-> 0],
              [u |-> "c", w |-> "e", fy |-> 0, ty |-> t1],
              [u |-> "d", w |-> "e", fy |-> 0, ty |-> t2]},
             ("a" :> ha) @@ ("b" :> 1) @@ ("c" :> 1) @@ ("d" :> 1) @@ ("e" :> 2),
             [v \in {"a", "b", "c", "d", "e"} |-> "R"]) :
        t1 \in {0, -1}, t2 \in {-1, -2}, ha \in {1, 2}}

InitPL ==
    /\ plPc = "place"
    /\ pl_input \in PlFlat \cup PlChain
    /\ node_y = [v \in DOMAIN pl_input.seg |-> None]
    /\ last_y = node_y
    /\ calc_segments = <<>>
    /\ segments = <<>>
    /\ balance = [mode |-> "FORW_PENDULUM", pendulum_iters |-> _PENDULUM_ITERS,
                  final_iters |-> _FINAL_ITERS, ready |-> FALSE,
                  prev_total_deflection |-> RInf, iters |-> 0]

\* create_unbalanced_placement(linear_segments)
PlPlace ==
    /\ plPc = "place"
    /\ node_y' = create_unbalanced_placement(pl_input, node_y, 1)
    /\ last_y' = node_y
    /\ plPc' = "balance"
    /\ UNCHANGED <<pl_input, calc_segments, segments, balance>>
    /\ FramePL

\* what one iteration leaves in the loop's variables
Iterated(b, total) == [LoopNext(b, total) EXCEPT !.iters = @ + 1]

\* one iteration of `while True` of balance_placement (lines 247-276)
PlIterate ==
    /\ plPc = "balance"
    /\ balance.iters < MaxPlIters
    /\ calc_segments' = CalcAll(pl_input, balance.mode, node_y)
    /\ segments' = merge_regions(calc_segments', pl_input, node_y)
    /\ last_y' = node_y
    /\ node_y' = Deflect(segments', pl_input, node_y)
    /\ balance' = Iterated(balance, TotalDeflection(calc_segments'))
    /\ plPc' = IF balance'.ready /\ balance'.final_iters > 0 THEN "done" ELSE "balance"
    /\ UNCHANGED pl_input
    /\ FramePL

NextPL == PlPlace \/ PlIterate

-----------------------------------------------------------------------------

(* Specifications: each machine runs alone, the variables of the others keep
   their idle values *)

IdleHC ==
    /\ hcPc = "idle" /\ free_col = <<>> /\ constrained_clusters = <<>>
    /\ init_barycenter = <<>> /\ barycenter = <<>> /\ GC = EmptyGraph /\ L = <<>>
    /\ deg = <<>> /\ unconstrained = {} /\ hcMerges = 0

IdleCC ==
    /\ ccPc = "idle" /\ ccPos = <<>> /\ H_N = <<>> /\ H_S = <<>> /\ bipartite_edges = <<>>
    /\ cross_weight = 0

IdleLS ==
    /\ lsPc = "idle" /\ ls_columns = <<>> /\ ls_edges = {} /\ ls_cluster = <<>>
    /\ ls_parent = <<>> /\ node_type = <<>> /\ linear_segments = <<>> /\ segment_nodes = <<>>
    /\ node_segment = <<>> /\ lsPair = 0 /\ lsI = 0

IdleBAL ==
    /\ balPc = "idle" /\ mode = "idle" /\ pendulum_iters = 0 /\ final_iters = 0
    /\ ready = FALSE /\ prev_total_deflection = 0 /\ total_deflection = 0 /\ balIters = 0

IdleMC ==
    /\ mcPc = "idle" /\ mc_input = <<>> /\ columns = <<>> /\ forward_items = <<>>
    /\ backward_items = <<>> /\ cr = <<>> /\ iteration = 0 /\ cross_count = 0
    /\ old_cross_count = 0 /\ pass_best_columns = <<>> /\ best_cross_count = 0
    /\ best_columns = <<>> /\ restarts = 0 /\ rng_pos = 0

IdleDF ==
    /\ dfPc = "idle" /\ df_mode = "idle" /\ df_edges = {} /\ df_y = <<>>
    /\ segment_deflection = <<0, 1>> /\ segment_weight = 0

IdlePL ==
    /\ plPc = "idle" /\ pl_input = <<>> /\ node_y = <<>> /\ last_y = <<>>
    /\ calc_segments = <<>> /\ segments = <<>> /\ balance = <<>>

StartHC == InitHC /\ IdleCC /\ IdleLS /\ IdleBAL /\ IdleMC /\ IdleDF /\ IdlePL
SpecHC == StartHC /\ [][NextHC]_vars

StartCC == InitCC /\ IdleHC /\ IdleLS /\ IdleBAL /\ IdleMC /\ IdleDF /\ IdlePL
SpecCC == StartCC /\ [][NextCC]_vars

StartLS == InitLS /\ IdleHC /\ IdleCC /\ IdleBAL /\ IdleMC /\ IdleDF /\ IdlePL
SpecLS == StartLS /\ [][NextLS]_vars

StartBAL == InitBAL /\ IdleHC /\ IdleCC /\ IdleLS /\ IdleMC /\ IdleDF /\ IdlePL
SpecBAL == StartBAL /\ [][NextBAL]_vars

StartMC == InitMC /\ IdleHC /\ IdleCC /\ IdleLS /\ IdleBAL /\ IdleDF /\ IdlePL
SpecMC == StartMC /\ [][NextMC]_vars

StartDF == InitDF /\ IdleHC /\ IdleCC /\ IdleLS /\ IdleBAL /\ IdleMC /\ IdlePL
SpecDF == StartDF /\ [][NextDF]_vars

StartPL == InitPL /\ IdleHC /\ IdleCC /\ IdleLS /\ IdleBAL /\ IdleMC /\ IdleDF
SpecPL == StartPL /\ [][NextPL]_vars

-----------------------------------------------------------------------------
(* C1: for every chain of 'must precede' constraints c1 -> c2 -> ... -> ck and any
   initial barycenters, the dense ranks written at the end satisfy
   rank(ci) < rank(ci+1) for every consecutive constraint pair. *)
C1_ChainRanksRespected ==
    hcPc = "done" =>
        \A i \in 1..(Len(constrained_clusters) - 1) :
            RLt(barycenter[constrained_clusters[i]], barycenter[constrained_clusters[i + 1]])

(* C3: get_cross_count returns exactly the brute-force count: the sum over all
   unordered pairs of edges of weight1 * weight2 for the pairs whose north positions
   and south positions are strictly inverted, whichever side became the south side;
   it returns 0 when there are no edges. *)
SocketBefore(a, b) ==
    \/ SocketPos(ccPos, a) < SocketPos(ccPos, b)
    \/ a[1] = b[1] /\ a[2] = b[2] /\ a[3] < b[3]

Inverted(e, f) ==
    \/ SocketBefore(e[1], f[1]) /\ SocketBefore(f[2], e[2])
    \/ SocketBefore(f[1], e[1]) /\ SocketBefore(e[2], f[2])

RECURSIVE SumOver(_, _)
SumOver(X, val) ==
    IF X = {} THEN 0
    ELSE LET x == CHOOSE y \in X : TRUE IN val[x] + SumOver(X \ {x}, val)

BruteForceCount(edges) ==
    LET pairs == {p \in (1..Len(edges)) \X (1..Len(edges)) :
                     p[1] < p[2] /\ Inverted(edges[p[1]], edges[p[2]])}
    IN  SumOver(pairs, [p \in pairs |-> edges[p[1]][3] * edges[p[2]][3]])

C3_CrossCountIsBruteForce ==
    ccPc = "done" =>
        /\ cross_weight = BruteForceCount(bipartite_edges)
        /\ (bipartite_edges = <<>> => cross_weight = 0)

\* three edges, two of them crossing the third, counted with the free side as north
C3_Witness ==
    /\ ccPc = "done"
    /\ Len(bipartite_edges) = 3
    /\ H_N[1][1] = "free"
    /\ cross_weight >= 3

(* C7: for a graph that is a single simple non-branching path, get_linear_segments
   returns exactly one segment, and its node list holds every node of the path in
   column order. *)
LsNodes == Range(Flatten(ls_columns))

IsSinglePath ==
    /\ \A v \in LsNodes : in_degree(ls_edges, v) <= 1 /\ out_degree(ls_edges, v) <= 1
    /\ Cardinality(ls_edges) = Cardinality(LsNodes) - 1

C7_PathIsOneSegment ==
    (lsPc = "assign" /\ IsSinglePath) =>
        /\ Len(linear_segments) = 1
        /\ segment_nodes[linear_segments[1]] = Flatten(ls_columns)

\* a three-node path whose nodes lie in three different clusters
C7_Witness ==
    /\ lsPc = "assign"
    /\ IsSinglePath
    /\ Cardinality(LsNodes) = 3
    /\ Cardinality({ls_cluster[v] : v \in LsNodes}) = 3

(* C2: after prevent_cycles has run inside sort_linear_segments, the segment-level
   graph whose edges join the segments of vertically adjacent nodes of each column
   is acyclic, so its topological sort exists. *)
SGPairs == Range(SGEdges(ls_columns, node_segment, <<>>))

RECURSIVE Closure(_, _, _)
Closure(R, E, k) ==
    IF k = 0 THEN R
    ELSE Closure(R \cup {<<a[1], b[2]>> : <<a, b>> \in {x \in R \X E : x[1][2] = x[2][1]}}, E, k - 1)

SGAcyclic == \A p \in Closure(SGPairs, SGPairs, Len(linear_segments)) : p[1] # p[2]

C2_SegmentGraphAcyclic ==
    /\ lsPc = "sort" => SGAcyclic
    /\ lsPc # "error"

\* two segments cross in both pairs of columns; one crossing was resolved at a
\* border node, the other at a node of another type
C2_Witness ==
    /\ lsPc = "done"
    /\ \E v, w \in LsNodes : node_type[v] = "VERTICAL_BORDER" /\ node_type[w] = "OTHER"

(* C8: the segments partition the nodes: after get_linear_segments, and still after
   every split of prevent_cycles, every node appears in the node list of exactly one
   segment, once; once sort_linear_segments has set the references, each node's
   segment reference is that segment. *)
Occurrences(v) ==
    {<<s, i>> \in (DOMAIN segment_nodes) \X (1..Cardinality(LsNodes)) :
        i <= Len(segment_nodes[s]) /\ segment_nodes[s][i] = v}

C8_SegmentsPartitionNodes ==
    /\ lsPc \in {"assign", "prevent", "sort", "done"} =>
        /\ \A v \in LsNodes : Cardinality(Occurrences(v)) = 1
        /\ Range(linear_segments) = DOMAIN segment_nodes
        /\ Len(linear_segments) = Cardinality(DOMAIN segment_nodes)
    /\ lsPc \in {"prevent", "sort", "done"} =>
        \A v \in LsNodes : v \in Range(segment_nodes[node_segment[v]])

\* a graph with a branching node whose segments were split by prevent_cycles
C8_Witness ==
    /\ lsPc = "done"
    /\ \E v \in LsNodes : out_degree(ls_edges, v) > 1
    /\ \E v \in LsNodes : node_type[v] # "?"
    /\ Len(linear_segments) >= 5

(* C10: balance_placement runs to completion for every sequence of finite
   non-negative total deflections: the pendulum phase is left after a bounded number
   of iterations (the hard cap forces the switch to rubber mode even if the total
   never improves), the rubber phase cannot go on forever, and the loop's break is
   reached. *)
PendulumBound == _PENDULUM_ITERS + _ITERS + 1
RubberBound == 2 + MaxDeflection \div 2

C10_BalanceTerminates ==
    /\ mode \in {"FORW_PENDULUM", "BACKW_PENDULUM"} => balIters < PendulumBound
    /\ balIters <= PendulumBound + RubberBound
    /\ balPc = "loop" => ENABLED (BalPendulum \/ BalRubber)

\* the break is reached after the hard cap forced the switch and the rubber phase
\* improved for as long as it could
C10_Witness ==
    /\ balPc = "done"
    /\ balIters = PendulumBound + RubberBound


(* C4: in the contracted graph G_h of a cluster h there is one edge for every pair of
   a fixed source s and an immediate child c of h, its weight is the number of
   original edges from s into c or a descendant of c (two parallel edges give one
   edge of weight 2), and the weights add up to the number of original edges that
   enter descendants of h. *)
ItemData(items, backwards) ==
    UNION {{[H |-> items[j].data[m], LT |-> items[j].LT, backwards |-> backwards] :
               m \in 1..Len(items[j].data)} : j \in 1..Len(items)}

\* the original edges (by their index in G) from s into c or below c
EdgesInto(d, s, c) ==
    {k \in 1..Len(mc_input.E) :
        LET e == mc_input.E[k]
            from == IF d.backwards THEN e[2] ELSE e[1]
            to == IF d.backwards THEN e[1] ELSE e[2]
        IN  from = s /\ (to = c \/ to \in descendants(d.LT, c))}

WeightsCountEdges(d) ==
    LET gh == d.H.graph
        below == descendants(d.LT, d.H.h)
    IN  /\ \A k, m \in 1..Len(gh) : (gh[k].s = gh[m].s /\ gh[k].c = gh[m].c) => k = m
        /\ \A k \in 1..Len(gh) : gh[k].weight = Cardinality(EdgesInto(d, gh[k].s, gh[k].c))
        /\ SumOver(1..Len(gh), [k \in 1..Len(gh) |-> gh[k].weight])
             = Cardinality({k \in 1..Len(mc_input.E) :
                               (IF d.backwards THEN mc_input.E[k][1] ELSE mc_input.E[k][2])
                                   \in below})

C4_WeightsCountEdges ==
    mcPc # "idle" =>
        \A d \in ItemData(forward_items, FALSE) \cup ItemData(backward_items, TRUE) :
            WeightsCountEdges(d)

\* two edges from S into the frame K were contracted into one edge of weight 2
C4_Witness ==
    /\ mcPc # "idle"
    /\ \E d \in ItemData(forward_items, FALSE) :
         \E k \in 1..Len(d.H.graph) :
            /\ d.H.graph[k].weight = 2
            /\ d.H.graph[k].c = "K"
            /\ Cardinality({mc_input.E[e][2] : e \in EdgesInto(d, d.H.graph[k].s, "K")}) = 2

(* C5: best_cross_count of minimize_crossings never increases from one restart to the
   next, whatever the restarts return. *)
C5_BestNeverIncreases ==
    [][mcPc # "idle" => ~LessThan(best_cross_count, best_cross_count')]_vars

\* a restart has returned a count above the best so far, and the best was kept
C5_Witness ==
    /\ mcPc \in {"pass", "done"}
    /\ restarts >= 2
    /\ iteration = -1
    /\ LessThan(best_cross_count, old_cross_count)

(* C6: the two-column example column0 = [A, B], column1 = [C, D] with the edges
   A->C, A->D, B->C. As stated (whatever sockets the edges use): minimize_crossings
   ends with A above B, a crossing-free column1 and best_cross_count = 0. *)
IsExample == mc_input.cols = <<<<"A", "B">>, <<"C", "D">>>> /\ Len(mc_input.E) = 3

\* the end <<x, i>> of a link (node x, socket idx i) lies above the end <<y, j>>
EndAbove(x, i, y, j) ==
    \/ ColIndex(columns, x) < ColIndex(columns, y)
    \/ x = y /\ i < j

\* the pairs of links that cross in the final columns
FinalCrossings ==
    {p \in (1..Len(mc_input.E)) \X (1..Len(mc_input.E)) :
        LET e == mc_input.E[p[1]]
            f == mc_input.E[p[2]]
        IN  EndAbove(e[1], e[3], f[1], f[3]) /\ EndAbove(f[2], f[4], e[2], e[4])}

EndsCrossingFree ==
    /\ ColIndex(columns, "A") < ColIndex(columns, "B")
    /\ FinalCrossings = {}
    /\ best_cross_count = 0

C6_ExampleEndsCrossingFree == (mcPc = "done" /\ IsExample) => EndsCrossingFree

(* C6 as amended: the same, provided the link A->D does not leave A below the link
   A->C and the link from A does not enter C below the link from B. *)
SocketsAgree ==
    /\ mc_input.E[2][3] <= mc_input.E[1][3]
    /\ mc_input.E[1][4] <= mc_input.E[3][4]

C6_ExampleWithAgreeingSockets ==
    (mcPc = "done" /\ IsExample /\ SocketsAgree) => EndsCrossingFree

\* the example ended crossing-free with A->C and A->D on different sockets of A
C6_Witness ==
    /\ mcPc = "done"
    /\ IsExample
    /\ SocketsAgree
    /\ mc_input.E[2][3] < mc_input.E[1][3]
    /\ EndsCrossingFree
    /\ columns[2] = <<"D", "C">>

(* C9: two runs of minimize_crossings on the same input (graph, initial columns,
   cluster tree, random stream) end with the same columns, whatever order the sets
   of nodes and clusters are iterated in. *)
C9_SetOrderIrrelevant ==
    mcPc = "done" =>
        \A ho \in HashOrders(AllElements) :
            RunToEnd(McStart([mc_input EXCEPT !.hash_order = ho])).columns = columns

(* C11: balance_placement terminates only after the rubber-mode stabilisation test
   has held in _FINAL_ITERS = 3 iterations; it never terminates at the first or
   second iteration in which that test holds. final_iters falls by one in every
   iteration in which the test holds, so _FINAL_ITERS - final_iters counts them. *)
C11_StopsAfterConfirming ==
    balPc = "done" => _FINAL_ITERS - final_iters >= _FINAL_ITERS

(* C12: calc_deflection uses, for each node of the segment, only its edges to
   successors in forward-pendulum mode, only its edges from predecessors in
   backward-pendulum mode, and both kinds in rubber mode; edges between two nodes of
   the same segment are never used. *)
\* the edges from v to the nodes of other segments, and those into v from them
SuccessorEdges(v) == {e \in df_edges : e.u = v /\ DfSegOf[e.w] # DfSegOf[v]}
PredecessorEdges(v) == {e \in df_edges : e.w = v /\ DfSegOf[e.u] # DfSegOf[v]}

\* how far the other end of the edge e of v, socket to socket, lies above v's end
PullOn(v, e) ==
    IF e.u = v THEN RAdd(RSub(df_y[e.w], df_y[v]), RInt(e.ty - e.fy))
    ELSE RAdd(RSub(df_y[e.u], df_y[v]), RInt(e.fy - e.ty))

\* the deflection and the weight of the segment when every node v uses the edges
\* used[v]: a tenth of the mean, over the nodes with edges, of the mean pull of a node
DeflectionOver(used) ==
    LET pulled == {v \in Range(DfSegment) : used[v] # {}}
        mean == [v \in pulled |->
                    RDivInt(RSumOver(used[v], [e \in used[v] |-> PullOn(v, e)]),
                            Cardinality(used[v]))]
    IN  [deflection |-> IF pulled = {} THEN RInt(0)
                        ELSE RDivInt(RSumOver(pulled, mean), 10 * Cardinality(pulled)),
         weight |-> Cardinality(pulled)]

UsesEdges(used) ==
    /\ REq(segment_deflection, DeflectionOver(used).deflection)
    /\ segment_weight = DeflectionOver(used).weight

\* as stated: successors in forward-pendulum mode, predecessors in backward-pendulum
C12_ForwardUsesSuccessors ==
    dfPc = "done" =>
        UsesEdges([v \in Range(DfSegment) |->
                      CASE df_mode = "FORW_PENDULUM" -> SuccessorEdges(v)
                        [] df_mode = "BACKW_PENDULUM" -> PredecessorEdges(v)
                        [] OTHER -> SuccessorEdges(v) \cup PredecessorEdges(v)])

\* as the code has it: predecessors in forward-pendulum mode, successors in
\* backward-pendulum mode, both in rubber mode, never an edge inside the segment
C12_ForwardUsesPredecessors ==
    dfPc = "done" =>
        UsesEdges([v \in Range(DfSegment) |->
                      CASE df_mode = "FORW_PENDULUM" -> PredecessorEdges(v)
                        [] df_mode = "BACKW_PENDULUM" -> SuccessorEdges(v)
                        [] OTHER -> SuccessorEdges(v) \cup PredecessorEdges(v)])

\* a forward-pendulum call on a segment with an inner edge whose nodes have both
\* successors and predecessors, pulled by the predecessors only
C12_Witness ==
    /\ dfPc = "done"
    /\ df_mode = "FORW_PENDULUM"
    /\ df_edges = DfCandidates
    /\ segment_weight = 2
    /\ ~REq(segment_deflection,
            DeflectionOver([v \in Range(DfSegment) |-> SuccessorEdges(v)]).deflection)

(* C13: in balance_placement the mode alternates forward-pendulum, backward-pendulum,
   ... starting with forward-pendulum for at least _PENDULUM_ITERS = 4 iterations;
   after those, the switch to rubber mode happens in the first iteration whose total
   absolute deflection did not improve on the previous iteration's, or when the hard
   iteration cap is reached, and once in rubber mode the mode never changes again. *)
\* the iteration just made was at least the fourth and its total did not improve on
\* the previous one's, or the cap -pendulum_iters > _ITERS is reached
StoppedImproving ==
    /\ balIters' >= _PENDULUM_ITERS
    /\ \/ ~LessThan(total_deflection', prev_total_deflection)
       \/ -pendulum_iters' > _ITERS

C13_Step ==
    /\ mode = "RUBBER" => mode' = "RUBBER"
    /\ mode = "FORW_PENDULUM" => mode' \in {"BACKW_PENDULUM", "RUBBER"}
    /\ mode = "BACKW_PENDULUM" => mode' \in {"FORW_PENDULUM", "RUBBER"}
    /\ (mode # "RUBBER" /\ balPc = "loop") => (mode' = "RUBBER" <=> StoppedImproving)

C13_RubberWhenImprovementStops == [][C13_Step]_vars

(* C14: calc_socket_ranks: for every fixed node at 1-based column position p with n
   incident sockets, in forward passes as well as backward passes, the n ranks
   assigned are pairwise distinct, evenly spaced by 1/(n+1), and all lie strictly
   inside the open interval (p, p+1). *)
\* the ranks calc_socket_ranks(H, forwards) gives the sockets of the fixed node v are
\* evenly spaced by 1/(n+1) and lie strictly between p + lo and p + lo + 1
RanksSpacedWithin(H, forwards, v, lo) ==
    LET ss == H.fixed_sockets[v]
        n == Len(ss)
        p == ColIndex(columns, v) + 1
        rk == calc_socket_ranks(H, forwards, columns, <<>>)
    IN  /\ \A k \in 1..n : RLt(RInt(p + lo), rk[ss[k]]) /\ RLt(rk[ss[k]], RInt(p + lo + 1))
        /\ \A k, m \in 1..n : k # m => ~REq(rk[ss[k]], rk[ss[m]])
        /\ \A k \in 1..(n - 1) :
               \/ REq(RSub(rk[ss[k + 1]], rk[ss[k]]), Rat(1, n + 1))
               \/ REq(RSub(rk[ss[k]], rk[ss[k + 1]]), Rat(1, n + 1))

\* every H of the forward and of the backward data, every fixed node of it
AllFixedNodes(P(_, _, _)) ==
    /\ \A d \in ItemData(forward_items, FALSE) :
           \A v \in DOMAIN d.H.fixed_sockets : P(d.H, TRUE, v)
    /\ \A d \in ItemData(backward_items, TRUE) :
           \A v \in DOMAIN d.H.fixed_sockets : P(d.H, FALSE, v)

\* as stated: inside (p, p+1) in both directions
C14_RanksAbovePosition ==
    mcPc \in {"pass", "returned", "done"} =>
        AllFixedNodes(LAMBDA H, forwards, v : RanksSpacedWithin(H, forwards, v, 0))

\* as the code has it: inside (p-1, p) in forward passes, inside (p, p+1) in backward
\* passes
C14_RanksBesidePosition ==
    mcPc \in {"pass", "returned", "done"} =>
        AllFixedNodes(LAMBDA H, forwards, v :
                          RanksSpacedWithin(H, forwards, v, IF forwards THEN -1 ELSE 0))

\* a forward pass has stored the ranks of a fixed node with two sockets, both below
\* its position
C14_Witness ==
    /\ mcPc = "pass"
    /\ iteration = 0
    /\ \E d \in ItemData(forward_items, FALSE) :
           \E v \in DOMAIN d.H.fixed_sockets :
               /\ Len(d.H.fixed_sockets[v]) = 2
               /\ \A s \in Range(d.H.fixed_sockets[v]) :
                      /\ s \in DOMAIN cr.ranks
                      /\ cr.ranks[s] = calc_socket_ranks(d.H, TRUE, columns, <<>>)[s]
                      /\ RLt(cr.ranks[s], RInt(ColIndex(columns, v) + 1))

(* C15: the merge loop of handle_constraints terminates for every constraint chain
   and every barycenter assignment, without an iteration cap: each merge of a
   violated constraint's two endpoints strictly decreases the number of nodes of the
   constraint graph. So a chain of k clusters, k nodes at first, allows fewer than k
   merges. *)
C15_MergeStep ==
    hcMerges' = hcMerges + 1 =>
        /\ Len(GC'.nodes) < Len(GC.nodes)
        /\ hcMerges' < Len(constrained_clusters)

C15_MergeLoopTerminates == [][C15_MergeStep]_vars

\* a chain of three clusters merged twice, the second merge with a merged node, and
\* the loop left
C15_Witness ==
    /\ hcPc = "done"
    /\ Len(constrained_clusters) = 3
    /\ hcMerges = 2
    /\ Len(GC.nodes) = 1

(* C16: after handle_constraints on a cluster subproblem with n free elements, the
   barycenters of the free elements are exactly the integers 0..n-1, each used once:
   every free element belongs to exactly one resolved group or is unconstrained,
   groups are ordered by barycenter, and the members of a merged group are
   consecutive in the order in which they were concatenated. *)
\* the groups the ranks were written from, and the barycenter each was sorted by: a
\* free element's is the one it came with, a merged node's the one the merge gave it
FinalGroups == unconstrained \cup Range(GC.nodes)
GroupKey(g) == IF g \in Range(free_col) THEN init_barycenter[g] ELSE barycenter[g]

C16_DenseRanksByGroup ==
    hcPc = "done" =>
        /\ {barycenter[v] : v \in Range(free_col)} = {RInt(i) : i \in 0..(Len(free_col) - 1)}
        /\ \A v \in Range(free_col) :
               Cardinality({g \in FinalGroups : v \in Range(L[g])}) = 1
        /\ \A g \in FinalGroups : \A i \in 1..(Len(L[g]) - 1) :
               barycenter[L[g][i + 1]] = RInt(barycenter[L[g][i]][1] + 1)
        /\ \A g, h \in FinalGroups :
               RLt(GroupKey(g), GroupKey(h)) => RLt(barycenter[L[g][1]], barycenter[L[h][1]])

\* a merged group of two follows an unconstrained element with a smaller barycenter
C16_Witness ==
    /\ hcPc = "done"
    /\ Len(free_col) = 3
    /\ hcMerges = 1
    /\ \E g \in FinalGroups, h \in unconstrained :
           /\ Len(L[g]) = 2
           /\ h \in Range(free_col)
           /\ barycenter[h] = RInt(0)
           /\ barycenter[L[g][1]] = RInt(1)
           /\ barycenter[L[g][2]] = RInt(2)

(* C17: when minimize_crossings returns, and at the start of every restart after the
   first, every column is in the order recorded in the snapshot taken when the best
   crossing count so far was achieved: an inner loop that stops on non-improvement
   reverts the columns to its last improving snapshot, a restart that does not beat
   the best reverts every column to the best-known order, and each column remains a
   permutation of its original nodes. *)
IsPermutationOf(col, orig) ==
    Len(col) = Len(orig) /\ Range(col) = Range(orig) /\ Cardinality(Range(col)) = Len(col)

C17_ColumnsAreBestSnapshot ==
    /\ mcPc \in {"pass", "returned", "done"} =>
           \A k \in 1..Len(columns) : IsPermutationOf(columns[k], mc_input.cols[k])
    /\ mcPc = "returned" => columns = pass_best_columns
    /\ (mcPc = "done" \/ (mcPc = "pass" /\ iteration = -1 /\ restarts >= 1)) =>
           columns = best_columns

\* a restart begins after one that ended in another order than the best, with more
\* crossings, and was reverted
C17_Witness ==
    /\ mcPc = "pass"
    /\ iteration = -1
    /\ restarts >= 2
    /\ LessThan(best_cross_count, old_cross_count)
    /\ pass_best_columns # best_columns
    /\ columns = best_columns


(* C18: when minimize_crossings returns, in every column, the first included, the
   nodes that belong to any one cluster, directly or through nested clusters, occupy
   consecutive positions: no node from outside a cluster lies between two nodes of
   that cluster. *)
MembersOf(c) == descendants(mc_input.T, c)

ContiguousIn(col, c) ==
    \A i \in 1..Len(col) : \A l \in i..Len(col) :
        (col[i] \in MembersOf(c) /\ col[l] \in MembersOf(c)) =>
            \A j \in i..l : col[j] \in MembersOf(c)

ClustersOfInput == {e[1] : e \in Range(mc_input.T.edges)}

\* C18: at return the nodes of every cluster are consecutive in every column
C18_ClustersContiguous ==
    mcPc = "done" =>
        \A k \in 1..Len(columns) : \A c \in ClustersOfInput : ContiguousIn(columns[k], c)


(* C20: in the first column pair of every pass of minimized_cross_count, sorting the
   constrained clusters never fails: every constrained cluster of every cluster
   subproblem is the directly owning cluster of at least one node of the fixed
   column, also when clusters are nested and the fixed column only holds nodes of a
   sub-cluster. *)
C20_ConstraintSortNeverFails == mcPc # "error"


(* C19: minimum vertical gap. After create_unbalanced_placement and after every
   iteration of balance_placement, for every two vertically adjacent nodes v above w
   of any column, w.y <= v.y - v.height - margin; merge_regions joins two adjacent
   regions whenever applying their separate deflections would break this, and every
   segment of a region is moved by the region's single weight-averaged deflection. *)
AdjacentPairs ==
    UNION {{<<c[k], c[k + 1]>> : k \in 1..(Len(c) - 1)} : c \in Range(pl_input.cols)}

\* w.y <= v.y - v.height - margin for the pair p = <<v, w>> at the ordinates y
GapKept(y, p) == RLe(y[p[2]], RSub(y[p[1]], RInt(pl_input.height[p[1]] + MarginY)))

RegionOf(v) == region(segments, pl_input.seg[v])

SegmentsOf(r) == {s \in DOMAIN segments : region(segments, s) = r}

\* the mean of the deflections calc_deflection gave the segments of the region r,
\* weighted by their weights
WeightedAverage(r) ==
    IF \A s \in SegmentsOf(r) : calc_segments[s].weight = 0 THEN RInt(0)
    ELSE RDivInt(RSumOver(SegmentsOf(r),
                          [s \in SegmentsOf(r) |->
                              RMulInt(calc_segments[s].deflection, calc_segments[s].weight)]),
                 RSumOver(SegmentsOf(r),
                          [s \in SegmentsOf(r) |-> RInt(calc_segments[s].weight)])[1])

\* the ordinates of the last iteration, every node deflected by its own region
SeparatelyDeflected ==
    [v \in DOMAIN last_y |-> RAdd(last_y[v], segments[RegionOf(v)].deflection)]

C19_MinimumGap ==
    plPc \in {"balance", "done"} =>
        /\ \A p \in AdjacentPairs : GapKept(node_y, p)
        /\ balance.iters > 0 =>
               /\ \A p \in AdjacentPairs :
                      ~GapKept(SeparatelyDeflected, p) => RegionOf(p[1]) = RegionOf(p[2])
               /\ \A v \in DOMAIN node_y :
                      /\ segments[RegionOf(v)].deflection = WeightedAverage(RegionOf(v))
                      /\ node_y[v] = RAdd(last_y[v], WeightedAverage(RegionOf(v)))

\* an iteration in rubber mode has joined the regions of two nodes that no frame
\* holds together, moved them, and left them at the minimum gap
C19_Witness ==
    /\ plPc \in {"balance", "done"}
    /\ balance.mode = "RUBBER"
    /\ balance.prev_total_deflection # RInf
    /\ \E p \in AdjacentPairs :
           /\ pl_input.cluster[p[1]] \notin pl_input.framed
           /\ pl_input.seg[p[1]] # pl_input.seg[p[2]]
           /\ RegionOf(p[1]) = RegionOf(p[2])
           /\ segments[RegionOf(p[1])].deflection # RInt(0)
           /\ node_y[p[2]] = RSub(node_y[p[1]], RInt(pl_input.height[p[1]] + MarginY))

====
